---------------------------- MODULE Spec2Model ----------------------------
(***************************************************************************)
(* Caption overlay and crop compositor of the content dashboard:           *)
(*   src/src/lib/overlay-service.ts   crop resolver, text layout, batch    *)
(*   src/src/lib/color-service.ts     accent colour and contrast choice    *)
(*   src/src/app/api/overlay/route.ts the batch path of POST /api/overlay  *)
(*                                                                         *)
(* Numbers.  The source computes in IEEE doubles; the model computes the   *)
(* same expressions over exact rationals held as integer numerator and     *)
(* denominator.  Math.round(p/q) is floor(p/q + 1/2), Math.floor(p/q) is   *)
(* p \div q.  A zoom factor is a pair <<n, d>> standing for n/d.           *)
(*                                                                         *)
(* Text.  A string is a sequence of one-character strings.                 *)
(***************************************************************************)
EXTENDS Integers, Sequences, FiniteSets, TLC

VARIABLES
    \* ---- crop resolver (applyImageTransformAndCrop) ----
    metaWidth,      \* metadata.width of the source image, 0 when absent
    metaHeight,     \* metadata.height of the source image, 0 when absent
    targetWidth,    \* target aspect, width part
    targetHeight,   \* target aspect, height part
    cropOptions,    \* [imageScale, imageOffsetX, imageOffsetY]
    cropRect,       \* the rectangle handed to extract, or NoRect
    cropPc,         \* "idle" | "start" | "done"
    \* ---- text layout (createTextSvg) ----
    textCaption,    \* the text argument
    textImageWidth, \* the imageWidth argument
    textOptions,    \* [fontSize, width]: the options createTextSvg reads for wrapping
    charsPerLine,   \* the line budget computed at line 113
    textLines,      \* wrapText's result
    textEscaped,    \* the content of the emitted <text> elements, in order
    textPc,         \* "idle" | "start" | "done"
    \* ---- colour analysis (color-service.ts) ----
    pixels,         \* the raw pixels extractDominantColors reads, in buffer order
    dominantColors, \* `colors` of extractAccentColor: the buckets it filters
    accentHex,      \* extractAccentColor's result, Null for null
    accentPc,       \* "idle" | "start" | "done"
    backgroundColor,\* getBestTextColor's backgroundColor
    accentColor,    \* getBestTextColor's accentColor, NoAccent when absent or ''
    bestTextColor,  \* getBestTextColor's result, "none" before the call
    contrastPc,     \* "idle" | "start" | "done"
    \* ---- POST /api/overlay, batch path, and batchOverlayCaptions ----
    reqItems,       \* body.items: sequence of [imageUrl, caption, options]
    reqOptions,     \* body.options, the shared defaults ({} when absent)
    reqReturnType,  \* body.returnType: "base64" | "image"
    routePc,        \* "idle" | "start" | "awaitBatch" | "done"
    response,       \* the HTTP response, NoResponse before it is sent
    batchPc,        \* "idle" | "loop" | "returned" | "thrown"
    batchIdx,       \* 1-based index of the item the loop handles next
    results,        \* the results array of batchOverlayCaptions
    fetchLog,       \* the URLs passed to fetch, in call order
    batchError,     \* the error batchOverlayCaptions threw, NoError if none
    \* ---- overlayCaption, processImageForExport and their URL variants ----
    ovEntry,        \* the function the caller invoked
    ovSource,       \* the caller's image: [width, height, valid]
    ovOptions,      \* the caller's Partial<OverlayOptions>
    ovImage,        \* the buffer overlayCaption works on: [width, height, valid]
    ovCropRect,     \* the rectangle extracted by processImageForExport
    ovOpts,         \* opts of overlayCaption, fontSize scaled
    ovAccentColor,  \* the local accentColor of overlayCaption
    ovExtracted,    \* what extractAccentColor returned, undefined if not called
    ovSvg,          \* what createTextSvg laid out
    ovTrace,        \* the steps executed, in order
    ovResult,       \* NoResult, the output buffer, or the error thrown
    ovPc,           \* the next step: "idle" | "fetch" | "crop" | "overlay" |
                    \* "accent" | "svg" | "composite" | "done" | "failed"
    \* ---- two calls of overlayCaption / processImageForExport in flight ----
    heap,           \* the objects the calls can reach: DEFAULT_OPTIONS and the
                    \* callers' options objects optsA and optsB
    passedOptions,  \* the contents of heap when the calls were made
    callRef,        \* per call: the options object it was handed
    callEntry,      \* per call: the function invoked
    callSource,     \* per call: the caller's image
    callBuf,        \* per call: the buffer overlayCaption works on
    callOpts,       \* per call: opts of overlayCaption
    callAccent,     \* per call: the local accentColor
    callResult,     \* per call: NoResult, the output buffer or the error
    callPc,         \* per call: "idle" | "crop" | "enter" | "scale" | "accent" |
                    \* "composite" | "done" | "failed"
    \* ---- POST of the week export route ----
    weekPlan,       \* body.weekPlan: [days], NoWeekPlan when missing
    wkPc,           \* "idle" | "start" | "loop" | "finish" | "done"
    wkDay,          \* 1-based index of the day the outer loop is at
    wkImg,          \* 1-based index of the image the inner loop is at
    exportDir,      \* [exists, files]: the export directory and its files
    exportedImages, \* the exportedImages array
    totalProcessed, \* the counter of line 67
    totalFailed,    \* the counter of line 68
    wkAttempts,     \* the images handed to processImageFromUrlForExport, in order
    wkMetadata,     \* the object written as metadata.json, NoMetadata before
    wkResponse,     \* the HTTP response, NoResponse before it is sent
    \* ---- one mounted DayPlanner and its CosmosBrowserForSelection ----
    plannerDay,     \* the day prop of DayPlanner: [status, images]
    viewMode,       \* "browse" | "generate" | "select" | "finalize"
    selectedCosmosImages, \* the selection, a list of cosmosIds
    isGenerating,   \* a caption request is in flight
    plannerError,   \* the error state, NoError when null
    generateRequest,\* the images of the request in flight, <<>> when none
    lastCall,       \* the last handler called, with its argument and the
                    \* selection it found
    mounted         \* the DayPlanner is shown

cropVars == <<metaWidth, metaHeight, targetWidth, targetHeight,
              cropOptions, cropRect, cropPc>>

textVars == <<textCaption, textImageWidth, textOptions, charsPerLine,
              textLines, textEscaped, textPc>>

colorVars == <<pixels, dominantColors, accentHex, accentPc,
               backgroundColor, accentColor, bestTextColor, contrastPc>>

batchVars == <<reqItems, reqOptions, reqReturnType, routePc, response,
               batchPc, batchIdx, results, fetchLog, batchError>>

ovVars == <<ovEntry, ovSource, ovOptions, ovImage, ovCropRect, ovOpts,
            ovAccentColor, ovExtracted, ovSvg, ovTrace, ovResult, ovPc>>

callVars == <<heap, passedOptions, callRef, callEntry, callSource, callBuf,
              callOpts, callAccent, callResult, callPc>>

weekVars == <<weekPlan, wkPc, wkDay, wkImg, exportDir, exportedImages,
              totalProcessed, totalFailed, wkAttempts, wkMetadata, wkResponse>>

planVars == <<plannerDay, viewMode, selectedCosmosImages, isGenerating, plannerError,
              generateRequest, lastCall, mounted>>

vars == <<cropVars, textVars, colorVars, batchVars, ovVars, callVars, weekVars,
          planVars>>

(***************************************************************************)
(* Bounds of the model.                                                    *)
(***************************************************************************)
\* Source images are MaxDim x MaxDim pixels at most (plus the two named sizes).
MaxDim == 6
\* A caption of plain words is built from at most MaxWordTokens tokens.
MaxWordTokens == 5
\* A caption with XML-sensitive characters is built from at most MaxXmlTokens tokens.
MaxXmlTokens == 3
\* An image holds at most MaxPixels freely chosen pixels (after an optional
\* fixed block of neutral ones).
MaxPixels == 3
\* A freely composed batch request holds at most MaxItems items.
MaxItems == 3

(***************************************************************************)
(* The state of a component that is not called in a specification.         *)
(***************************************************************************)
NoRect == [left |-> -1, top |-> -1, width |-> -1, height |-> -1]

CropIdle ==
    /\ metaWidth = 0 /\ metaHeight = 0
    /\ targetWidth = 4 /\ targetHeight = 5
    /\ cropOptions = [imageScale |-> <<0, 1>>, imageOffsetX |-> 0, imageOffsetY |-> 0]
    /\ cropRect = NoRect
    /\ cropPc = "idle"

TextIdle ==
    /\ textCaption = <<>>
    /\ textImageWidth = 1
    /\ textOptions = [fontSize |-> 1, width |-> 100]
    /\ charsPerLine = 0
    /\ textLines = <<>>
    /\ textEscaped = <<>>
    /\ textPc = "idle"

\* null and undefined for a hex string: no characters at all ('' is as falsy).
Null == <<>>
NoAccent == <<>>

ColorIdle ==
    /\ pixels = <<>>
    /\ dominantColors = <<>>
    /\ accentHex = Null
    /\ accentPc = "idle"
    /\ backgroundColor = [r |-> 0, g |-> 0, b |-> 0]
    /\ accentColor = NoAccent
    /\ bestTextColor = "none"
    /\ contrastPc = "idle"

NoResponse == [status |-> 0]
NoError == "none"

BatchIdle ==
    /\ reqItems = <<>>
    /\ reqOptions = <<>>
    /\ reqReturnType = "base64"
    /\ routePc = "idle"
    /\ response = NoResponse
    /\ batchPc = "idle"
    /\ batchIdx = 1
    /\ results = <<>>
    /\ fetchLog = <<>>
    /\ batchError = NoError

NoImage == [width |-> 0, height |-> 0, valid |-> FALSE]
NoResult == [kind |-> "none"]
JsUndefined == "undefined"

OvIdle ==
    /\ ovEntry = "none"
    /\ ovSource = NoImage
    /\ ovOptions = <<>>
    /\ ovImage = NoImage
    /\ ovCropRect = NoRect
    /\ ovOpts = <<>>
    /\ ovAccentColor = JsUndefined
    /\ ovExtracted = JsUndefined
    /\ ovSvg = <<>>
    /\ ovTrace = <<>>
    /\ ovResult = NoResult
    /\ ovPc = "idle"

Calls == {1, 2}

CallsIdle ==
    /\ heap = <<>>
    /\ passedOptions = <<>>
    /\ callRef = [c \in Calls |-> "none"]
    /\ callEntry = [c \in Calls |-> "none"]
    /\ callSource = [c \in Calls |-> NoImage]
    /\ callBuf = [c \in Calls |-> NoImage]
    /\ callOpts = [c \in Calls |-> <<>>]
    /\ callAccent = [c \in Calls |-> JsUndefined]
    /\ callResult = [c \in Calls |-> NoResult]
    /\ callPc = [c \in Calls |-> "idle"]

NoWeekPlan == [days |-> <<>>, missing |-> TRUE]
NoDirectory == [exists |-> FALSE, files |-> {}]
NoMetadata == [totalImages |-> 0, failedImages |-> 0, days |-> <<>>]

WeekIdle ==
    /\ weekPlan = NoWeekPlan
    /\ wkPc = "idle"
    /\ wkDay = 1
    /\ wkImg = 1
    /\ exportDir = NoDirectory
    /\ exportedImages = <<>>
    /\ totalProcessed = 0
    /\ totalFailed = 0
    /\ wkAttempts = <<>>
    /\ wkMetadata = NoMetadata
    /\ wkResponse = NoResponse

PendingDay == [status |-> "pending", images |-> <<>>]
NoCall == [handler |-> "none", image |-> 0, before |-> <<>>]

PlannerIdle ==
    /\ plannerDay = PendingDay
    /\ viewMode = "browse"
    /\ selectedCosmosImages = <<>>
    /\ isGenerating = FALSE
    /\ plannerError = NoError
    /\ generateRequest = <<>>
    /\ lastCall = NoCall
    /\ mounted = FALSE

(***************************************************************************)
(* Arithmetic helpers.                                                     *)
(***************************************************************************)
Max(a, b) == IF a >= b THEN a ELSE b
Min(a, b) == IF a <= b THEN a ELSE b
Abs(a) == IF a >= 0 THEN a ELSE -a

\* Math.round(p / q) for q > 0: the nearest integer, halves upwards.
MathRound(p, q) == (2 * p + q) \div (2 * q)

\* `metadata.width || 1080`: an absent (or zero) dimension falls back to 1080.
DimOrDefault(d) == IF d = 0 THEN 1080 ELSE d

(***************************************************************************)
(* applyImageTransformAndCrop: the rectangle passed to sharp's extract.    *)
(***************************************************************************)
\* Math.max(1, options.imageScale || 1), as <<n, d>>.
UserScale(imageScale) ==
    IF imageScale[1] = 0 \/ imageScale[1] < imageScale[2]
    THEN <<1, 1>>
    ELSE imageScale

\* Mutant: the target ratio applied upside down (height * tH / tW).
BaseCropWidth_InvertedRatio(imgWidth, imgHeight, tW, tH) ==
    IF imgWidth * tH > tW * imgHeight
    THEN MathRound(imgHeight * tH, tW)
    ELSE imgWidth

\* Base crop (before zoom) for the target aspect: lines 354-364.
BaseCropWidth(imgWidth, imgHeight, tW, tH) ==
    IF imgWidth * tH > tW * imgHeight
    THEN MathRound(imgHeight * tW, tH)
    ELSE imgWidth

BaseCropHeight(imgWidth, imgHeight, tW, tH) ==
    IF imgWidth * tH > tW * imgHeight
    THEN imgHeight
    ELSE MathRound(imgWidth * tH, tW)

\* Mutant: the crop window multiplied by the zoom instead of divided.
ScaledCrop_Multiplied(base, imageScale, imgDim) ==
    LET s == UserScale(imageScale)
    IN  Min(MathRound(base * s[1], s[2]), imgDim)

\* Zoom and the "don't crop more than the image" clamp: lines 366-373.
ScaledCrop(base, imageScale, imgDim) ==
    LET s == UserScale(imageScale)
    IN  Min(MathRound(base * s[2], s[1]), imgDim)

\* Mutant: the pan taken as a percentage of the image, not of the overflow,
\* and never clamped.
CropOrigin_PanByImage(imgDim, cropDim, offsetPct) ==
    MathRound(50 * (imgDim - cropDim) + offsetPct * imgDim, 100)

\* Mutant: the crop anchored at the offset alone, the centring term dropped.
CropOrigin_NotCentred(imgDim, cropDim, offsetPct) ==
    LET overflow == Max(0, imgDim - cropDim)
        raw == MathRound(offsetPct * overflow, 100)
    IN  Max(0, Min(imgDim - cropDim, raw))

\* Pan: centre plus offset percent of the overflow, rounded, clamped: 375-390.
CropOrigin(imgDim, cropDim, offsetPct) ==
    LET overflow == Max(0, imgDim - cropDim)
        \* (imgDim - cropDim)/2 + (offsetPct/100) * overflow, over 100
        raw == MathRound(50 * (imgDim - cropDim) + offsetPct * overflow, 100)
    IN  Max(0, Min(imgDim - cropDim, raw))

ApplyImageTransformAndCrop(mW, mH, tW, tH, options) ==
    LET imgWidth  == DimOrDefault(mW)
        imgHeight == DimOrDefault(mH)
        cropWidth  == ScaledCrop(BaseCropWidth(imgWidth, imgHeight, tW, tH),
                                 options.imageScale, imgWidth)
        cropHeight == ScaledCrop(BaseCropHeight(imgWidth, imgHeight, tW, tH),
                                 options.imageScale, imgHeight)
    IN  [left   |-> CropOrigin(imgWidth, cropWidth, options.imageOffsetX),
         top    |-> CropOrigin(imgHeight, cropHeight, options.imageOffsetY),
         width  |-> cropWidth,
         height |-> cropHeight]

(***************************************************************************)
(* Text layout: wrapText, escapeXml and the wrapping part of createTextSvg.*)
(***************************************************************************)
\* JavaScript's Infinity, which Math.floor(boxWidth / 0) yields: larger than
\* any length the comparison at line 54 meets.
Infinity == 1000000

\* text.split(' '): the words between single spaces, empty words included.
RECURSIVE SplitAcc(_, _, _, _)
SplitAcc(text, i, word, acc) ==
    IF i > Len(text) THEN Append(acc, word)
    ELSE IF text[i] = " "
         THEN SplitAcc(text, i + 1, <<>>, Append(acc, word))
         ELSE SplitAcc(text, i + 1, Append(word, text[i]), acc)

Split(text) == SplitAcc(text, 1, <<>>, <<>>)

\* Mutant: the separating space left out of the line budget.
Fits_SpaceNotCounted(currentLine, word, maxCharsPerLine) ==
    Len(currentLine) + Len(word) <= maxCharsPerLine

\* Line 54: currentLine.length + word.length + 1 <= maxCharsPerLine.
Fits(currentLine, word, maxCharsPerLine) ==
    Len(currentLine) + Len(word) + 1 <= maxCharsPerLine

\* Mutant: the line pushed without the test for emptiness.
PushLine_Unguarded(lines, currentLine) == Append(lines, currentLine)

\* `if (currentLine) lines.push(currentLine)`: an empty line is never pushed.
PushLine(lines, currentLine) ==
    IF currentLine # <<>> THEN Append(lines, currentLine) ELSE lines

\* The loop of lines 53-61 from word i on.
RECURSIVE WrapLoop(_, _, _, _, _)
WrapLoop(words, i, currentLine, lines, maxCharsPerLine) ==
    IF i > Len(words) THEN PushLine(lines, currentLine)
    ELSE IF Fits(currentLine, words[i], maxCharsPerLine)
         THEN WrapLoop(words, i + 1,
                       currentLine \o (IF currentLine # <<>> THEN <<" ">> ELSE <<>>)
                                   \o words[i],
                       lines, maxCharsPerLine)
         ELSE WrapLoop(words, i + 1, words[i], PushLine(lines, currentLine),
                       maxCharsPerLine)

\* Mutant: a hard wrap that cuts the text every maxCharsPerLine characters.
RECURSIVE HardWrap(_, _)
HardWrap(text, maxCharsPerLine) ==
    IF text = <<>> THEN <<>>
    ELSE IF maxCharsPerLine < 1 \/ Len(text) <= maxCharsPerLine THEN <<text>>
    ELSE <<SubSeq(text, 1, maxCharsPerLine)>>
         \o HardWrap(SubSeq(text, maxCharsPerLine + 1, Len(text)), maxCharsPerLine)

WrapText(text, maxCharsPerLine) ==
    WrapLoop(Split(text), 1, <<>>, <<>>, maxCharsPerLine)

\* text.replace(/ch/g, entity): every occurrence of ch, left to right.
RECURSIVE ReplaceAll(_, _, _)
ReplaceAll(text, ch, entity) ==
    IF text = <<>> THEN <<>>
    ELSE (IF Head(text) = ch THEN entity ELSE <<Head(text)>>)
         \o ReplaceAll(Tail(text), ch, entity)

EntAmp  == <<"&", "a", "m", "p", ";">>
EntLt   == <<"&", "l", "t", ";">>
EntGt   == <<"&", "g", "t", ";">>
EntQuot == <<"&", "q", "u", "o", "t", ";">>
EntApos == <<"&", "a", "p", "o", "s", ";">>

\* Mutant: the ampersand pass run last, after the entities were written.
EscapeXml_AmpLast(text) ==
    ReplaceAll(ReplaceAll(ReplaceAll(ReplaceAll(ReplaceAll(text,
        "<", EntLt), ">", EntGt), "\"", EntQuot), "'", EntApos), "&", EntAmp)

\* escapeXml, lines 69-76: five passes, the ampersand first.
EscapeXml(text) ==
    ReplaceAll(ReplaceAll(ReplaceAll(ReplaceAll(ReplaceAll(text,
        "&", EntAmp), "<", EntLt), ">", EntGt), "\"", EntQuot), "'", EntApos)

\* Math.floor(textBoxWidth / (fontSize * 0.55)) with
\* textBoxWidth = imageWidth * (width / 100): the quotient is
\* imageWidth * width / (55 * fontSize).  width > 0 and imageWidth > 0 here,
\* so a zero fontSize gives Infinity.
CharsPerLine(imageWidth, widthPct, fontSize) ==
    IF fontSize = 0 THEN Infinity
    ELSE IF fontSize > 0 THEN (imageWidth * widthPct) \div (55 * fontSize)
    ELSE -((imageWidth * widthPct + 55 * (-fontSize) - 1) \div (55 * (-fontSize)))

\* lines.map(line => escapeXml(line)), lines 152-158.
EscapeLines(lines) == [i \in 1 .. Len(lines) |-> EscapeXml(lines[i])]

(***************************************************************************)
(* Inputs of the text layout.                                              *)
(***************************************************************************)
RECURSIVE Concat(_)
Concat(tokens) ==
    IF tokens = <<>> THEN <<>> ELSE Head(tokens) \o Concat(Tail(tokens))

TokenSeqs(tokens, n) == UNION {[1 .. k -> tokens] : k \in 0 .. n}

WordTokens == {<<"a">>, <<"b", "b">>, <<"c", "c", "c", "c", "c">>, <<" ">>}
XmlTokens == {<<"&">>, <<"<">>, <<">">>, <<"\"">>, <<"'">>, <<" ">>,
              <<"a", "m", "p", ";">>, <<"l", "t", ";">>}

Captions ==
    {Concat(ts) : ts \in TokenSeqs(WordTokens, MaxWordTokens)}
    \cup {Concat(ts) : ts \in TokenSeqs(XmlTokens, MaxXmlTokens)}

\* Widths, percentages and (already scaled) font sizes that give line budgets
\* from 0 up to more than the longest caption, and Infinity.
TextImageWidths == {1, 3, 12}
TextWidthPcts == {20, 50, 100}
TextFontSizes == {0, 1, 2}

InitText ==
    /\ textCaption \in Captions
    /\ textImageWidth \in TextImageWidths
    /\ textOptions \in [fontSize : TextFontSizes, width : TextWidthPcts]
    /\ charsPerLine = 0
    /\ textLines = <<>>
    /\ textEscaped = <<>>
    /\ textPc = "start"
    /\ CropIdle
    /\ ColorIdle
    /\ BatchIdle
    /\ OvIdle
    /\ CallsIdle
    /\ WeekIdle
    /\ PlannerIdle

\* One call of createTextSvg: budget, wrap, escape each line.
CreateTextSvg ==
    /\ textPc = "start"
    /\ LET cpl == CharsPerLine(textImageWidth, textOptions.width, textOptions.fontSize)
           lines == WrapText(textCaption, cpl)
       IN  /\ charsPerLine' = cpl
           /\ textLines' = lines
           /\ textEscaped' = EscapeLines(lines)
    /\ textPc' = "done"
    /\ UNCHANGED <<textCaption, textImageWidth, textOptions>>
    /\ UNCHANGED <<cropVars, colorVars, batchVars, ovVars,
                   callVars, weekVars, planVars>>

NextText == CreateTextSvg

SpecText == InitText /\ [][NextText]_vars


(***************************************************************************)
(* Colour analysis: extractDominantColors, extractAccentColor.             *)
(*                                                                         *)
(* A histogram bucket is [key, count, r, g, b] where r, g, b are the SUMS  *)
(* of the bucket's pixels: the running average the source keeps            *)
(* (lines 97-99) is r/count, g/count, b/count.  Comparisons on the average *)
(* are made on the sums, both sides multiplied by count.                   *)
(***************************************************************************)
\* The number of dominant colours extractAccentColor asks for.
NumAccentColors == 10

HexDigits == <<"0", "1", "2", "3", "4", "5", "6", "7",
               "8", "9", "a", "b", "c", "d", "e", "f">>

\* Math.round(x).toString(16), padded to two digits (x = sum/count <= 255).
HexByte(sum, count) ==
    LET x == MathRound(sum, count)
    IN  <<HexDigits[(x \div 16) + 1], HexDigits[(x % 16) + 1]>>

\* rgbToHex, lines 24-29.
RgbToHex(bucket) ==
    <<"#">> \o HexByte(bucket.r, bucket.count)
            \o HexByte(bucket.g, bucket.count)
            \o HexByte(bucket.b, bucket.count)

\* Math.round(c / 32) * 32, lines 87-89.
Quantize(c) == MathRound(c, 32) * 32

BucketKey(px) == <<Quantize(px.r), Quantize(px.g), Quantize(px.b)>>

\* Lines 91-102: count the pixel in its bucket, or open a bucket at the end
\* of the map (a Map iterates in insertion order).
AddPixel(colorMap, px) ==
    IF \E i \in 1 .. Len(colorMap) : colorMap[i].key = BucketKey(px)
    THEN LET i == CHOOSE i \in 1 .. Len(colorMap) : colorMap[i].key = BucketKey(px)
         IN  [colorMap EXCEPT ![i] = [key |-> @.key, count |-> @.count + 1,
                                      r |-> @.r + px.r, g |-> @.g + px.g,
                                      b |-> @.b + px.b]]
    ELSE Append(colorMap, [key |-> BucketKey(px), count |-> 1,
                           r |-> px.r, g |-> px.g, b |-> px.b])

RECURSIVE Histogram(_, _, _)
Histogram(data, i, colorMap) ==
    IF i > Len(data) THEN colorMap
    ELSE Histogram(data, i + 1, AddPixel(colorMap, data[i]))

\* Array.prototype.sort is stable: elements the comparator holds equal keep
\* their order.  Ranked(seq, before) orders seq by the relation before, given
\* as the set of index pairs <<j, i>> with seq[j] to come before seq[i].
Ranked(seq, before) ==
    LET rank == [i \in 1 .. Len(seq) |->
                    Cardinality({j \in 1 .. Len(seq) :
                                    \/ <<j, i>> \in before
                                    \/ (<<i, j>> \notin before /\ j < i)}) + 1]
    IN  [p \in 1 .. Len(seq) |-> seq[CHOOSE i \in 1 .. Len(seq) : rank[i] = p]]

\* slice(0, n)
Take(seq, n) == SubSeq(seq, 1, Min(n, Len(seq)))

MoreFrequent(a, b) == a.count > b.count

\* .sort((a, b) => b.count - a.count), line 107.
SortByCount(seq) ==
    Ranked(seq, {ji \in (1 .. Len(seq)) \X (1 .. Len(seq)) :
                    MoreFrequent(seq[ji[1]], seq[ji[2]])})

\* extractDominantColors, lines 68-119: the numColors most frequent buckets.
ExtractDominantColors(data, numColors) ==
    Take(Take(SortByCount(Histogram(data, 1, <<>>)), numColors * 2),
         numColors)

Max3(a, b, c) == Max(a, Max(b, c))
Min3(a, b, c) == Min(a, Min(b, c))

\* getSaturation, lines 58-63, as <<numerator, denominator>>; 0 when max is 0.
Saturation(c) ==
    IF Max3(c.r, c.g, c.b) = 0 THEN <<0, 1>>
    ELSE <<Max3(c.r, c.g, c.b) - Min3(c.r, c.g, c.b), Max3(c.r, c.g, c.b)>>

\* a > b for non-negative fractions with positive denominators.
FracGt(a, b) == a[1] * b[2] > b[1] * a[2]

MoreSaturated(a, b) == FracGt(Saturation(a), Saturation(b))

\* .sort((a, b) => b.saturation - a.saturation), line 144.
SortBySaturation(seq) ==
    Ranked(seq, {ji \in (1 .. Len(seq)) \X (1 .. Len(seq)) :
                    MoreSaturated(seq[ji[1]], seq[ji[2]])})

\* Mutant: the near-gray test left out of the filter.
IsCandidate_GrayKept(c) ==
    LET n == c.count
        isNearBlack == c.r < 30 * n /\ c.g < 30 * n /\ c.b < 30 * n
        isNearWhite == c.r > 225 * n /\ c.g > 225 * n /\ c.b > 225 * n
    IN  ~isNearBlack /\ ~isNearWhite /\ FracGt(Saturation(c), <<1, 5>>)

\* The filter of lines 131-137.
IsCandidate(c) ==
    LET n == c.count
        isNearBlack == c.r < 30 * n /\ c.g < 30 * n /\ c.b < 30 * n
        isNearWhite == c.r > 225 * n /\ c.g > 225 * n /\ c.b > 225 * n
        isGray == /\ Abs(c.r - c.g) < 20 * n
                  /\ Abs(c.g - c.b) < 20 * n
                  /\ Abs(c.r - c.b) < 20 * n
    IN  ~isNearBlack /\ ~isNearWhite /\ ~isGray /\ FracGt(Saturation(c), <<1, 5>>)

\* extractAccentColor after line 128: filter, sort by saturation, first hex.
AccentOf(colors) ==
    LET candidateColors == SelectSeq(colors, IsCandidate)
    IN  IF Len(candidateColors) = 0 THEN Null
        ELSE RgbToHex(SortBySaturation(candidateColors)[1])

\* extractAccentColor, lines 125-147.
ExtractAccentColor(data) == AccentOf(ExtractDominantColors(data, NumAccentColors))

(***************************************************************************)
(* Contrast: getRelativeLuminance, getContrastRatio, getBestTextColor.     *)
(*                                                                         *)
(* The sRGB linearisation (c <= 0.03928 ? c/12.92 : ((c+0.055)/1.055)^2.4) *)
(* is tabulated in thousandths for the channel values the model draws;     *)
(* a luminance is held in ten-thousandths, a contrast ratio as             *)
(* <<lighter + 0.05, darker + 0.05>> in the same unit.                     *)
(***************************************************************************)
ChannelValues == {0, 10, 128, 245, 255}

LinearChannel(c) ==
    CASE c = 0 -> 0
      [] c = 10 -> 3
      [] c = 128 -> 216
      [] c = 245 -> 913
      [] c = 255 -> 1000

\* getRelativeLuminance, lines 35-41.
RelativeLuminance(rgb) ==
    (2126 * LinearChannel(rgb.r) + 7152 * LinearChannel(rgb.g)
        + 722 * LinearChannel(rgb.b)) \div 1000

\* getContrastRatio, lines 47-53.
ContrastRatio(color1, color2) ==
    LET l1 == RelativeLuminance(color1)
        l2 == RelativeLuminance(color2)
    IN  <<Max(l1, l2) + 500, Min(l1, l2) + 500>>

\* a >= b for contrast ratios.
RatioGeq(a, b) == a[1] * b[2] >= b[1] * a[2]

\* minContrast = 4.5, line 175.
MinContrast == <<9, 2>>

HexValue(ch) == (CHOOSE v \in 1 .. 16 : HexDigits[v] = ch) - 1

\* parseInt(pair, 16) for two hex digits.
ParseHexPair(pair) == 16 * HexValue(pair[1]) + HexValue(pair[2])

\* accentColor.replace('#', ''): the first '#' removed.
RECURSIVE RemoveFirst(_, _)
RemoveFirst(text, ch) ==
    IF text = <<>> THEN <<>>
    ELSE IF Head(text) = ch THEN Tail(text)
    ELSE <<Head(text)>> \o RemoveFirst(Tail(text), ch)

\* Lines 165-170.
ParseAccent(accent) ==
    LET hex == RemoveFirst(accent, "#")
    IN  [r |-> ParseHexPair(SubSeq(hex, 1, 2)),
         g |-> ParseHexPair(SubSeq(hex, 3, 4)),
         b |-> ParseHexPair(SubSeq(hex, 5, 6))]

White == [r |-> 255, g |-> 255, b |-> 255]
Black == [r |-> 0, g |-> 0, b |-> 0]

\* Mutant: the accent taken as soon as it reaches the minimum contrast.
GetBestTextColor_AccentIfReadable(background, accent) ==
    LET whiteContrast == ContrastRatio(background, White)
        blackContrast == ContrastRatio(background, Black)
    IN  IF accent # NoAccent
           /\ RatioGeq(ContrastRatio(background, ParseAccent(accent)), MinContrast)
        THEN "accent"
        ELSE IF RatioGeq(whiteContrast, blackContrast) THEN "white" ELSE "black"

\* getBestTextColor, lines 153-182.  Without an accent accentContrast is 0,
\* below minContrast.
GetBestTextColor(background, accent) ==
    LET whiteContrast == ContrastRatio(background, White)
        blackContrast == ContrastRatio(background, Black)
    IN  IF /\ accent # NoAccent
           /\ RatioGeq(ContrastRatio(background, ParseAccent(accent)), MinContrast)
           /\ RatioGeq(ContrastRatio(background, ParseAccent(accent)), whiteContrast)
           /\ RatioGeq(ContrastRatio(background, ParseAccent(accent)), blackContrast)
        THEN "accent"
        ELSE IF RatioGeq(whiteContrast, blackContrast) THEN "white" ELSE "black"

(***************************************************************************)
(* Inputs of the colour analysis.                                          *)
(***************************************************************************)
Rgb(r, g, b) == [r |-> r, g |-> g, b |-> b]

\* Mid-gray; near-black but saturated; near-white; narrow spread but
\* saturated; saturation exactly 0.2; a neighbour in the same bucket that
\* lifts the average above 0.2; two reds of one bucket; a blue as saturated
\* as the first red; an orange.
Palette == {Rgb(128, 128, 128), Rgb(29, 5, 5), Rgb(255, 230, 230),
            Rgb(50, 35, 35), Rgb(100, 80, 80), Rgb(110, 80, 80),
            Rgb(200, 40, 40), Rgb(201, 40, 40), Rgb(40, 40, 200),
            Rgb(200, 100, 50)}

\* Ten buckets that the filter rejects, two pixels each: more frequent than
\* any bucket the free pixels can open with one pixel.
NeutralLevels == <<0, 32, 64, 96, 128, 160, 192, 224, 255>>
NeutralBlock ==
    LET grays == [i \in 1 .. 2 * Len(NeutralLevels) |->
                     Rgb(NeutralLevels[(i + 1) \div 2], NeutralLevels[(i + 1) \div 2],
                         NeutralLevels[(i + 1) \div 2])]
    IN  grays \o <<Rgb(255, 230, 230), Rgb(255, 230, 230)>>

Images ==
    {prefix \o free :
        prefix \in {<<>>, NeutralBlock},
        free \in UNION {[1 .. k -> Palette] : k \in 1 .. MaxPixels}}

AccentHexes ==
    {<<"#">> \o r \o g \o b :
        r \in {<<"0", "0">>, <<"0", "a">>, <<"8", "0">>, <<"f", "5">>, <<"f", "f">>},
        g \in {<<"0", "0">>, <<"0", "a">>, <<"8", "0">>, <<"f", "5">>, <<"f", "f">>},
        b \in {<<"0", "0">>, <<"0", "a">>, <<"8", "0">>, <<"f", "5">>, <<"f", "f">>}}

InitAccent ==
    /\ pixels \in Images
    /\ dominantColors = <<>>
    /\ accentHex = Null
    /\ accentPc = "start"
    /\ backgroundColor = [r |-> 0, g |-> 0, b |-> 0]
    /\ accentColor = NoAccent
    /\ bestTextColor = "none"
    /\ contrastPc = "idle"
    /\ CropIdle
    /\ TextIdle
    /\ BatchIdle
    /\ OvIdle
    /\ CallsIdle
    /\ WeekIdle
    /\ PlannerIdle

\* One call of extractAccentColor.
ExtractAccent ==
    /\ accentPc = "start"
    /\ dominantColors' = ExtractDominantColors(pixels, NumAccentColors)
    /\ accentHex' = AccentOf(dominantColors')
    /\ accentPc' = "done"
    /\ UNCHANGED <<pixels, backgroundColor, accentColor, bestTextColor, contrastPc>>
    /\ UNCHANGED <<cropVars, textVars, batchVars, ovVars,
                   callVars, weekVars, planVars>>

NextAccent == ExtractAccent

SpecAccent == InitAccent /\ [][NextAccent]_vars

InitContrast ==
    /\ pixels = <<>>
    /\ dominantColors = <<>>
    /\ accentHex = Null
    /\ accentPc = "idle"
    /\ backgroundColor \in [r : ChannelValues, g : ChannelValues, b : ChannelValues]
    /\ accentColor \in AccentHexes \cup {NoAccent}
    /\ bestTextColor = "none"
    /\ contrastPc = "start"
    /\ CropIdle
    /\ TextIdle
    /\ BatchIdle
    /\ OvIdle
    /\ CallsIdle
    /\ WeekIdle
    /\ PlannerIdle

\* One call of getBestTextColor.
BestTextColor ==
    /\ contrastPc = "start"
    /\ bestTextColor' = GetBestTextColor(backgroundColor, accentColor)
    /\ contrastPc' = "done"
    /\ UNCHANGED <<pixels, dominantColors, accentHex, accentPc,
                   backgroundColor, accentColor>>
    /\ UNCHANGED <<cropVars, textVars, batchVars, ovVars,
                   callVars, weekVars, planVars>>

NextContrast == BestTextColor

SpecContrast == InitContrast /\ [][NextContrast]_vars


(***************************************************************************)
(* batchOverlayCaptions and the batch path of POST /api/overlay.           *)
(*                                                                         *)
(* A Partial<OverlayOptions> is a function from the fields that are set to *)
(* their values; {} and undefined are the empty function.  An output       *)
(* buffer is the record of what it was rendered from.                      *)
(***************************************************************************)
\* The route's limit, line 54.
MaxBatchItems == 10

\* DEFAULT_OPTIONS, lines 36-43.
DEFAULT_OPTIONS ==
    [x |-> 50, y |-> 80, fontSize |-> 34, width |-> 80,
     textAlign |-> "center", textColor |-> "white"]

\* Mutant: the spread written the other way round, the first object winning.
Spread_FirstWins(a, b) ==
    [k \in (DOMAIN a) \cup (DOMAIN b) |-> IF k \in DOMAIN a THEN a[k] ELSE b[k]]

\* { ...a, ...b }: the fields of b over those of a.
Spread(a, b) ==
    [k \in (DOMAIN a) \cup (DOMAIN b) |-> IF k \in DOMAIN b THEN b[k] ELSE a[k]]

\* The bytes a successful fetch of the URL delivers.
ImageAt(imageUrl) == [bytesOf |-> imageUrl]

\* overlayCaption's output for an image, a caption and the caller's options:
\* rendered with DEFAULT_OPTIONS overridden by the options (line 180).
OverlayCaption(imageBuffer, caption, options) ==
    [image |-> imageBuffer, caption |-> caption,
     options |-> Spread(DEFAULT_OPTIONS, options)]

\* Lines 263-264 for one item whose fetch and decode succeed.
ProcessItem(item, defaultOptions) ==
    OverlayCaption(ImageAt(item.imageUrl), item.caption,
                   Spread(defaultOptions, item.options))

\* Mutant: the new buffer put in front of the earlier ones.
PushResult_Front(buffers, processed) == <<processed>> \o buffers

\* results.push(processed), line 265.
PushResult(buffers, processed) == Append(buffers, processed)

\* buf.toString('base64')
ToBase64(buf) == [base64Of |-> buf]

\* Lines 70-80: the JSON body for returnType 'base64'.
BatchJson(buffers, items) ==
    [status |-> 200, success |-> TRUE, count |-> Len(buffers),
     images |-> [i \in 1 .. Len(buffers) |->
                    [base64 |-> ToBase64(buffers[i]),
                     caption |-> items[i].caption,
                     imageUrl |-> items[i].imageUrl]]]

(***************************************************************************)
(* Requests: bodies with items, options and returnType only.               *)
(***************************************************************************)
ImageUrls == {"u1", "u2"}
CaptionTexts == {"me after that run", "rest day"}
ItemOptions == {<<>>, [fontSize |-> 48]}
SharedOptions == {<<>>, [fontSize |-> 20], [textColor |-> "black"]}

Items == [imageUrl : ImageUrls, caption : CaptionTexts, options : ItemOptions]

\* Every batch of up to MaxItems items, one batch at the route's limit and
\* one just over it.
Batches ==
    UNION {[1 .. k -> Items] : k \in 0 .. MaxItems}
    \cup {[i \in 1 .. n |-> [imageUrl |-> "u1", caption |-> "rest day", options |-> <<>>]] :
             n \in {MaxBatchItems, MaxBatchItems + 1}}

\* How the fetch and decode of one item can end.
FetchFailures == {"Failed to fetch image: 404", "Input buffer contains unsupported image format"}

InitBatch ==
    /\ reqItems \in Batches
    /\ reqOptions \in SharedOptions
    /\ reqReturnType \in {"base64", "image"}
    /\ routePc = "start"
    /\ response = NoResponse
    /\ batchPc = "idle"
    /\ batchIdx = 1
    /\ results = <<>>
    /\ fetchLog = <<>>
    /\ batchError = NoError
    /\ CropIdle
    /\ TextIdle
    /\ ColorIdle
    /\ OvIdle
    /\ CallsIdle
    /\ WeekIdle
    /\ PlannerIdle

\* Mutant: a batch of ten refused as well.
PostBatchTooLarge_AtTen ==
    /\ routePc = "start"
    /\ Len(reqItems) >= MaxBatchItems
    /\ response' = [status |-> 400, error |-> "Maximum 10 images per batch"]
    /\ routePc' = "done"
    /\ UNCHANGED <<reqItems, reqOptions, reqReturnType, batchPc, batchIdx,
                   results, fetchLog, batchError>>
    /\ UNCHANGED <<cropVars, textVars, colorVars, ovVars,
                   callVars, weekVars, planVars>>

\* Lines 53-59: more than ten items are refused.
PostBatchTooLarge ==
    /\ routePc = "start"
    /\ Len(reqItems) > 0
    /\ Len(reqItems) > MaxBatchItems
    /\ response' = [status |-> 400, error |-> "Maximum 10 images per batch"]
    /\ routePc' = "done"
    /\ UNCHANGED <<reqItems, reqOptions, reqReturnType, batchPc, batchIdx,
                   results, fetchLog, batchError>>
    /\ UNCHANGED <<cropVars, textVars, colorVars, ovVars,
                   callVars, weekVars, planVars>>

\* Lines 61-68: the call of batchOverlayCaptions.
PostBatchCall ==
    /\ routePc = "start"
    /\ Len(reqItems) > 0
    /\ Len(reqItems) <= MaxBatchItems
    /\ routePc' = "awaitBatch"
    /\ batchPc' = "loop"
    /\ batchIdx' = 1
    /\ results' = <<>>
    /\ UNCHANGED <<reqItems, reqOptions, reqReturnType, response, fetchLog,
                   batchError>>
    /\ UNCHANGED <<cropVars, textVars, colorVars, ovVars,
                   callVars, weekVars, planVars>>

\* Lines 93-98: without items the single-image path runs; these bodies carry
\* no imageUrl and no caption.
PostSingleMissing ==
    /\ routePc = "start"
    /\ Len(reqItems) = 0
    /\ response' = [status |-> 400, error |-> "imageUrl and caption are required"]
    /\ routePc' = "done"
    /\ UNCHANGED <<reqItems, reqOptions, reqReturnType, batchPc, batchIdx,
                   results, fetchLog, batchError>>
    /\ UNCHANGED <<cropVars, textVars, colorVars, ovVars,
                   callVars, weekVars, planVars>>

\* One round of the loop, lines 261-265, the item fetched and rendered.
BatchItemOk ==
    /\ batchPc = "loop"
    /\ batchIdx <= Len(reqItems)
    /\ fetchLog' = Append(fetchLog, reqItems[batchIdx].imageUrl)
    /\ results' = PushResult(results, ProcessItem(reqItems[batchIdx], reqOptions))
    /\ batchIdx' = batchIdx + 1
    /\ UNCHANGED <<reqItems, reqOptions, reqReturnType, routePc, response,
                   batchPc, batchError>>
    /\ UNCHANGED <<cropVars, textVars, colorVars, ovVars,
                   callVars, weekVars, planVars>>

\* Mutant: the catch swallows the error and the loop goes on to the next item.
BatchItemFails_Skips ==
    /\ batchPc = "loop"
    /\ batchIdx <= Len(reqItems)
    /\ \E failure \in FetchFailures : batchError' = failure
    /\ fetchLog' = Append(fetchLog, reqItems[batchIdx].imageUrl)
    /\ batchIdx' = batchIdx + 1
    /\ batchPc' = IF batchIdx = Len(reqItems) THEN "thrown" ELSE "loop"
    /\ UNCHANGED <<reqItems, reqOptions, reqReturnType, routePc, response, results>>
    /\ UNCHANGED <<cropVars, textVars, colorVars, ovVars,
                   callVars, weekVars, planVars>>

\* One round of the loop whose fetch or decode fails: lines 266-269 rethrow,
\* the results array is dropped.
BatchItemFails ==
    /\ batchPc = "loop"
    /\ batchIdx <= Len(reqItems)
    /\ \E failure \in FetchFailures : batchError' = failure
    /\ fetchLog' = Append(fetchLog, reqItems[batchIdx].imageUrl)
    /\ batchPc' = "thrown"
    /\ UNCHANGED <<reqItems, reqOptions, reqReturnType, routePc, response,
                   batchIdx, results>>
    /\ UNCHANGED <<cropVars, textVars, colorVars, ovVars,
                   callVars, weekVars, planVars>>

\* Line 272: return results.
BatchReturn ==
    /\ batchPc = "loop"
    /\ batchIdx > Len(reqItems)
    /\ batchPc' = "returned"
    /\ UNCHANGED <<reqItems, reqOptions, reqReturnType, routePc, response,
                   batchIdx, results, fetchLog, batchError>>
    /\ UNCHANGED <<cropVars, textVars, colorVars, ovVars,
                   callVars, weekVars, planVars>>

\* Lines 70-89: the response for a batch that returned.
PostBatchRespond ==
    /\ routePc = "awaitBatch"
    /\ batchPc = "returned"
    /\ response' = IF reqReturnType = "base64"
                   THEN BatchJson(results, reqItems)
                   ELSE [status |-> 200, body |-> results[1]]
    /\ routePc' = "done"
    /\ UNCHANGED <<reqItems, reqOptions, reqReturnType, batchPc, batchIdx,
                   results, fetchLog, batchError>>
    /\ UNCHANGED <<cropVars, textVars, colorVars, ovVars,
                   callVars, weekVars, planVars>>

\* Lines 141-146: the catch of POST.
PostBatchError ==
    /\ routePc = "awaitBatch"
    /\ batchPc = "thrown"
    /\ response' = [status |-> 500, error |-> batchError]
    /\ routePc' = "done"
    /\ UNCHANGED <<reqItems, reqOptions, reqReturnType, batchPc, batchIdx,
                   results, fetchLog, batchError>>
    /\ UNCHANGED <<cropVars, textVars, colorVars, ovVars,
                   callVars, weekVars, planVars>>

NextBatch ==
    \/ PostBatchTooLarge
    \/ PostBatchCall
    \/ PostSingleMissing
    \/ BatchItemOk
    \/ BatchItemFails
    \/ BatchReturn
    \/ PostBatchRespond
    \/ PostBatchError

SpecBatch == InitBatch /\ [][NextBatch]_vars


(***************************************************************************)
(* overlayCaption, processImageForExport, overlayCaptionFromUrl and        *)
(* processImageFromUrlForExport.                                           *)
(*                                                                         *)
(* An image buffer is [width, height, valid]: its metadata, and whether    *)
(* sharp can decode it.  Colours are strings; "null" and "undefined" stand *)
(* for the JavaScript values, falsy like the empty string.                 *)
(***************************************************************************)
JsNull == "null"

\* !v for a string, null or undefined.
Falsy(v) == v \in {"", JsNull, JsUndefined}

\* Mutant: black rendered as white.
GetColorHex_BlackAsWhite(textColor, accent) ==
    CASE textColor = "black" -> "#FFFFFF"
      [] textColor = "white" -> "#FFFFFF"
      [] textColor = "accent" -> IF Falsy(accent) THEN "#FFFFFF" ELSE accent
      [] OTHER -> "#FFFFFF"

\* getColorHex, lines 81-95.
GetColorHex(textColor, accent) ==
    CASE textColor = "black" -> "#000000"
      [] textColor = "white" -> "#FFFFFF"
      [] textColor = "accent" -> IF Falsy(accent) THEN "#FFFFFF" ELSE accent
      [] OTHER -> "#FFFFFF"

\* Mutant: the font size scaled by the longer side.
ScaleFontSize_ByMax(fontSize, width, height) ==
    MathRound(fontSize * Max(width, height), 1080)

\* Lines 188-189: Math.round(fontSize * (Math.min(width, height) / 1080)).
ScaleFontSize(fontSize, width, height) ==
    MathRound(fontSize * Min(width, height), 1080)

\* Mutant: the accent extracted whenever textColor is 'accent'.
NeedsExtraction_Always(textColor, accent) == textColor = "accent"

\* The test of line 193.
NeedsExtraction(textColor, accent) ==
    textColor = "accent" /\ Falsy(accent)

\* Line 192: opts.accentColor, undefined when the key is absent.
AccentColorOf(opts) ==
    IF "accentColor" \in DOMAIN opts THEN opts.accentColor ELSE JsUndefined

\* options.imageScale || 1 and options.imageOffsetX/Y || 0 for
\* applyImageTransformAndCrop: an absent scale is <<0, 1>>.
CropOptionsOf(options) ==
    [imageScale   |-> IF "imageScale" \in DOMAIN options
                      THEN options.imageScale ELSE <<0, 1>>,
     imageOffsetX |-> IF "imageOffsetX" \in DOMAIN options
                      THEN options.imageOffsetX ELSE 0,
     imageOffsetY |-> IF "imageOffsetY" \in DOMAIN options
                      THEN options.imageOffsetY ELSE 0]

\* Mutant: the overlay handed the uncropped source.
CroppedImage_SourceSize(image, rect) == image

\* The buffer that extract(rect) yields, lines 392-395.
CroppedImage(image, rect) ==
    [width |-> rect.width, height |-> rect.height, valid |-> TRUE]

\* Lines 128-142: the text-anchor of an alignment; 'center' is also the
\* default branch.
TextAnchor(textAlign) ==
    CASE textAlign = "left" -> "start"
      [] textAlign = "right" -> "end"
      [] OTHER -> "middle"

\* Lines 119-142: textX in 200ths of a pixel: boxCenterX = (x/100)*imageWidth,
\* boxLeft and boxRight half a text-box width to either side.
TextX200(textAlign, x, imageWidth, widthPct) ==
    CASE textAlign = "left" -> 2 * x * imageWidth - imageWidth * widthPct
      [] textAlign = "right" -> 2 * x * imageWidth + imageWidth * widthPct
      [] OTHER -> 2 * x * imageWidth

\* Mutant: y taken as the baseline of the first line.
LineY100_FirstBaseline(i, n, y, imageHeight, fontSize) ==
    y * imageHeight + 130 * i * fontSize

\* Lines 116-117, 146 and 153: the baseline of line i (0-based) of n, in
\* hundredths of a pixel: textY + i*lineHeight with lineHeight = 1.3*fontSize
\* and textY = (y/100)*imageHeight - (n*lineHeight)/2 + fontSize.
LineY100(i, n, y, imageHeight, fontSize) ==
    y * imageHeight - 65 * n * fontSize + 100 * fontSize + 130 * i * fontSize

\* createTextSvg, lines 103-170: the document size, the wrapping budget, the
\* lines and the geometry (boxWidth100 and boxCenterX100 in hundredths of a
\* pixel, lineHeight10 in tenths, textX200 in 200ths, lineY100 in hundredths).
CreateSvg(text, imageWidth, imageHeight, opts, resolvedColor) ==
    LET cpl == CharsPerLine(imageWidth, opts.width, opts.fontSize)
        lines == WrapText(text, cpl)
    IN  [width         |-> imageWidth,
         height        |-> imageHeight,
         fontSize      |-> opts.fontSize,
         widthPct      |-> opts.width,
         boxWidth100   |-> imageWidth * opts.width,
         boxCenterX100 |-> opts.x * imageWidth,
         centerY100    |-> opts.y * imageHeight,
         lineHeight10  |-> opts.fontSize * 13,
         charsPerLine  |-> cpl,
         lines         |-> EscapeLines(lines),
         textAnchor    |-> TextAnchor(opts.textAlign),
         textX200      |-> TextX200(opts.textAlign, opts.x, imageWidth, opts.width),
         lineY100      |-> [k \in 1 .. Len(lines) |->
                               LineY100(k - 1, Len(lines), opts.y, imageHeight,
                                        opts.fontSize)],
         fill          |-> resolvedColor]


(***************************************************************************)
(* Calls of the four entry points.                                         *)
(***************************************************************************)
OvEntries == {"overlayCaption", "processImageForExport",
              "overlayCaptionFromUrl", "processImageFromUrlForExport"}

IsUrlEntry(entry) ==
    entry \in {"overlayCaptionFromUrl", "processImageFromUrlForExport"}

IsExportEntry(entry) ==
    entry \in {"processImageForExport", "processImageFromUrlForExport"}

Image(w, h) == [width |-> w, height |-> h, valid |-> TRUE]

\* Bytes that sharp cannot decode.
Malformed == [width |-> 0, height |-> 0, valid |-> FALSE]

OvSources == {Image(1, 1), Image(12, 15), Image(540, 960), Image(1080, 1080),
              Image(2160, 1080), Malformed}

\* The objects {} and { name: v } for v in values.
OptionalField(name, values) == {<<>>} \cup {name :> v : v \in values}

OvOptionSets ==
    {a @@ b @@ c @@ d @@ e @@ f :
        a \in OptionalField("fontSize", {54, 1, 0, -20}),
        b \in OptionalField("width", {10, 150}),
        c \in OptionalField("textColor", {"black", "white", "accent"}),
        d \in OptionalField("accentColor", {"#00ff00", ""}),
        e \in OptionalField("imageScale", {<<3, 1>>}),
        f \in {<<>>, [textAlign |-> "left"],
                [x |-> 25, y |-> 40, textAlign |-> "right"]}}

OvCaption == <<"g", "o", " ", "r", "u", "n">>

\* What extractAccentColor can return for an image.
ExtractedAccents == {JsNull, "#c82828"}

\* How fetch can fail: a response that is not ok, or a rejected fetch.
OvFetchFailures == {"Failed to fetch image: 404", "fetch failed"}

Thrown(message) == [kind |-> "error", message |-> message]

InitOverlay ==
    /\ ovEntry \in OvEntries
    /\ ovSource \in OvSources
    /\ ovOptions \in OvOptionSets
    /\ ovImage = IF IsUrlEntry(ovEntry) THEN NoImage ELSE ovSource
    /\ ovCropRect = NoRect
    /\ ovOpts = <<>>
    /\ ovAccentColor = JsUndefined
    /\ ovExtracted = JsUndefined
    /\ ovSvg = <<>>
    /\ ovTrace = <<>>
    /\ ovResult = NoResult
    /\ ovPc = IF IsUrlEntry(ovEntry) THEN "fetch"
              ELSE IF IsExportEntry(ovEntry) THEN "crop" ELSE "overlay"
    /\ CropIdle
    /\ TextIdle
    /\ ColorIdle
    /\ BatchIdle
    /\ CallsIdle
    /\ WeekIdle
    /\ PlannerIdle

\* Lines 226-232 and 424-430: the response is ok and its body is the buffer.
OvFetchOk ==
    /\ ovPc = "fetch"
    /\ ovTrace' = Append(ovTrace, "fetch")
    /\ ovImage' = ovSource
    /\ ovPc' = IF IsExportEntry(ovEntry) THEN "crop" ELSE "overlay"
    /\ UNCHANGED <<ovExtracted, ovEntry, ovSource, ovOptions, ovCropRect, ovOpts,
                   ovAccentColor, ovSvg, ovResult>>
    /\ UNCHANGED <<cropVars, textVars, colorVars, batchVars,
                   callVars, weekVars, planVars>>

\* Mutant: a failed fetch tried a second time.
OvFetchFails_Retries ==
    /\ ovPc = "fetch"
    /\ Len(ovTrace) < 2
    /\ ovTrace' = Append(ovTrace, "fetch")
    /\ UNCHANGED <<ovExtracted, ovEntry, ovSource, ovOptions, ovImage, ovCropRect, ovOpts,
                   ovAccentColor, ovSvg, ovResult, ovPc>>
    /\ UNCHANGED <<cropVars, textVars, colorVars, batchVars,
                   callVars, weekVars, planVars>>

\* Lines 226-229 and 424-427: fetch rejects or the response is not ok; the
\* error leaves the function.
OvFetchFails ==
    /\ ovPc = "fetch"
    /\ ovTrace' = Append(ovTrace, "fetch")
    /\ \E failure \in OvFetchFailures : ovResult' = Thrown(failure)
    /\ ovPc' = "failed"
    /\ UNCHANGED <<ovExtracted, ovEntry, ovSource, ovOptions, ovImage, ovCropRect, ovOpts,
                   ovAccentColor, ovSvg>>
    /\ UNCHANGED <<cropVars, textVars, colorVars, batchVars,
                   callVars, weekVars, planVars>>

\* Line 408: applyImageTransformAndCrop(imageBuffer, 4, 5, options).  sharp
\* rejects bytes it cannot decode and an extract area without pixels.
OvCrop ==
    /\ ovPc = "crop"
    /\ ovTrace' = Append(ovTrace, "crop")
    /\ LET rect == ApplyImageTransformAndCrop(ovImage.width, ovImage.height, 4, 5,
                                              CropOptionsOf(ovOptions))
       IN  IF ~ovImage.valid
           THEN /\ ovResult' = Thrown("Input buffer contains unsupported image format")
                /\ ovPc' = "failed"
                /\ UNCHANGED <<ovImage, ovCropRect>>
           ELSE IF rect.width < 1 \/ rect.height < 1
           THEN /\ ovResult' = Thrown("extract_area: bad extract area")
                /\ ovPc' = "failed"
                /\ UNCHANGED <<ovImage, ovCropRect>>
           ELSE /\ ovCropRect' = rect
                /\ ovImage' = CroppedImage(ovImage, rect)
                /\ ovPc' = "overlay"
                /\ UNCHANGED ovResult
    /\ UNCHANGED <<ovExtracted, ovEntry, ovSource, ovOptions, ovOpts, ovAccentColor, ovSvg>>
    /\ UNCHANGED <<cropVars, textVars, colorVars, batchVars,
                   callVars, weekVars, planVars>>

\* Lines 180-192 of overlayCaption: merge the options, read the metadata,
\* scale the font size, take the supplied accent.
OvOverlay ==
    /\ ovPc = "overlay"
    /\ ovTrace' = Append(ovTrace, "metadata")
    /\ IF ~ovImage.valid
       THEN /\ ovResult' = Thrown("Input buffer contains unsupported image format")
            /\ ovPc' = "failed"
            /\ UNCHANGED <<ovOpts, ovAccentColor>>
       ELSE LET opts == Spread(DEFAULT_OPTIONS, ovOptions)
                width == DimOrDefault(ovImage.width)
                height == DimOrDefault(ovImage.height)
            IN  /\ ovOpts' = [opts EXCEPT
                                 !.fontSize = ScaleFontSize(opts.fontSize, width, height)]
                /\ ovAccentColor' = AccentColorOf(opts)
                /\ ovPc' = "accent"
                /\ UNCHANGED ovResult
    /\ UNCHANGED <<ovExtracted, ovEntry, ovSource, ovOptions, ovImage, ovCropRect, ovSvg>>
    /\ UNCHANGED <<cropVars, textVars, colorVars, batchVars,
                   callVars, weekVars, planVars>>

\* Lines 193-195: extractAccentColor is called only under the test of line
\* 193, and null becomes '#FFFFFF'.
OvResolveAccent ==
    /\ ovPc = "accent"
    /\ IF NeedsExtraction(ovOpts.textColor, ovAccentColor)
       THEN /\ ovExtracted' \in ExtractedAccents
            /\ ovAccentColor' = IF Falsy(ovExtracted') THEN "#FFFFFF" ELSE ovExtracted'
            /\ ovTrace' = Append(ovTrace, "extractAccentColor")
       ELSE UNCHANGED <<ovAccentColor, ovExtracted, ovTrace>>
    /\ ovPc' = "svg"
    /\ UNCHANGED <<ovEntry, ovSource, ovOptions, ovImage, ovCropRect, ovOpts,
                   ovSvg, ovResult>>
    /\ UNCHANGED <<cropVars, textVars, colorVars, batchVars,
                   callVars, weekVars, planVars>>

\* Lines 198-201: the fill colour and the SVG for the image's dimensions.
OvCreateTextSvg ==
    /\ ovPc = "svg"
    /\ ovTrace' = Append(ovTrace, "createTextSvg")
    /\ ovSvg' = CreateSvg(OvCaption, DimOrDefault(ovImage.width),
                          DimOrDefault(ovImage.height), ovOpts,
                          GetColorHex(ovOpts.textColor, ovAccentColor))
    /\ ovPc' = "composite"
    /\ UNCHANGED <<ovExtracted, ovEntry, ovSource, ovOptions, ovImage, ovCropRect, ovOpts,
                   ovAccentColor, ovResult>>
    /\ UNCHANGED <<cropVars, textVars, colorVars, batchVars,
                   callVars, weekVars, planVars>>

\* Lines 204-215: the SVG composited onto the image, encoded as JPEG.
OvComposite ==
    /\ ovPc = "composite"
    /\ ovTrace' = Append(ovTrace, "composite")
    /\ ovResult' = [kind |-> "image", width |-> ovImage.width,
                    height |-> ovImage.height, overlay |-> ovSvg]
    /\ ovPc' = "done"
    /\ UNCHANGED <<ovExtracted, ovEntry, ovSource, ovOptions, ovImage, ovCropRect, ovOpts,
                   ovAccentColor, ovSvg>>
    /\ UNCHANGED <<cropVars, textVars, colorVars, batchVars,
                   callVars, weekVars, planVars>>

NextOverlay ==
    \/ OvFetchOk
    \/ OvFetchFails
    \/ OvCrop
    \/ OvOverlay
    \/ OvResolveAccent
    \/ OvCreateTextSvg
    \/ OvComposite

SpecOverlay == InitOverlay /\ [][NextOverlay]_vars


(***************************************************************************)
(* Two calls of overlayCaption / processImageForExport in flight at once,  *)
(* interleaved at their awaits.  The calls reach three objects:            *)
(* DEFAULT_OPTIONS of the module and the callers' options objects optsA    *)
(* and optsB; call 2 is handed either its own object or the one call 1     *)
(* was handed.                                                             *)
(***************************************************************************)
\* An image together with what extractAccentColor finds in it.
ImageWithAccent(w, h, accent) ==
    [width |-> w, height |-> h, valid |-> TRUE, accent |-> accent]

CallSources == {ImageWithAccent(1, 1, JsNull), ImageWithAccent(540, 960, JsNull),
                ImageWithAccent(1080, 1080, "#c82828")}

CallOptionSets == {<<>>, [fontSize |-> 54], [fontSize |-> 54, textColor |-> "accent"],
                   [fontSize |-> 20, imageScale |-> <<3, 1>>]}

CallEntries == {"overlayCaption", "processImageForExport"}

InitCalls ==
    /\ \E a \in CallOptionSets, b \in CallOptionSets :
          heap = [DEFAULT_OPTIONS |-> DEFAULT_OPTIONS, optsA |-> a, optsB |-> b]
    /\ passedOptions = heap
    /\ callRef \in {r \in [Calls -> {"optsA", "optsB"}] : r[1] = "optsA"}
    /\ callEntry \in [Calls -> CallEntries]
    /\ callSource \in [Calls -> CallSources]
    /\ callBuf = callSource
    /\ callOpts = [c \in Calls |-> <<>>]
    /\ callAccent = [c \in Calls |-> JsUndefined]
    /\ callResult = [c \in Calls |-> NoResult]
    /\ callPc = [c \in Calls |->
                    IF IsExportEntry(callEntry[c]) THEN "crop" ELSE "enter"]
    /\ CropIdle
    /\ TextIdle
    /\ ColorIdle
    /\ BatchIdle
    /\ OvIdle
    /\ WeekIdle
    /\ PlannerIdle

\* Mutant: the scaled font size also stored in the caller's options object.
WriteScaledFontSize_IntoOptions(objects, ref, fontSize) ==
    [objects EXCEPT ![ref] = Spread(@, [fontSize |-> fontSize])]

\* Mutant: the scaled font size also stored in DEFAULT_OPTIONS.
WriteScaledFontSize_IntoDefaults(objects, ref, fontSize) ==
    [objects EXCEPT !.DEFAULT_OPTIONS = Spread(@, [fontSize |-> fontSize])]

\* Line 189 assigns to opts, the object created at line 180: none of the
\* shared objects changes.
WriteScaledFontSize(objects, ref, fontSize) == objects

\* Line 408 for call c: the crop reads the caller's options object.
CallCrop(c) ==
    /\ callPc[c] = "crop"
    /\ LET rect == ApplyImageTransformAndCrop(callBuf[c].width, callBuf[c].height,
                                              4, 5, CropOptionsOf(heap[callRef[c]]))
       IN  IF rect.width < 1 \/ rect.height < 1
           THEN /\ callResult' = [callResult EXCEPT
                                     ![c] = Thrown("extract_area: bad extract area")]
                /\ callPc' = [callPc EXCEPT ![c] = "failed"]
                /\ UNCHANGED callBuf
           ELSE /\ callBuf' = [callBuf EXCEPT
                                  ![c] = CroppedImage(@, rect) @@ [accent |-> @.accent]]
                /\ callPc' = [callPc EXCEPT ![c] = "enter"]
                /\ UNCHANGED callResult
    /\ UNCHANGED <<heap, passedOptions, callRef, callEntry, callSource, callOpts,
                   callAccent>>
    /\ UNCHANGED <<cropVars, textVars, colorVars, batchVars,
                   ovVars, weekVars, planVars>>

\* Lines 180-183 for call c: opts is a new object spread from DEFAULT_OPTIONS
\* and the caller's options as they are now; then the metadata is awaited.
CallEnter(c) ==
    /\ callPc[c] = "enter"
    /\ callOpts' = [callOpts EXCEPT
                       ![c] = Spread(heap.DEFAULT_OPTIONS, heap[callRef[c]])]
    /\ callPc' = [callPc EXCEPT ![c] = "scale"]
    /\ UNCHANGED <<heap, passedOptions, callRef, callEntry, callSource, callBuf,
                   callAccent, callResult>>
    /\ UNCHANGED <<cropVars, textVars, colorVars, batchVars,
                   ovVars, weekVars, planVars>>

\* Lines 184-193 for call c: the font size scaled in opts, the supplied
\* accent taken; extractAccentColor is awaited if needed.
CallScale(c) ==
    /\ callPc[c] = "scale"
    /\ LET scaled == ScaleFontSize(callOpts[c].fontSize,
                                   DimOrDefault(callBuf[c].width),
                                   DimOrDefault(callBuf[c].height))
       IN  /\ callOpts' = [callOpts EXCEPT ![c].fontSize = scaled]
           /\ heap' = WriteScaledFontSize(heap, callRef[c], scaled)
    /\ callAccent' = [callAccent EXCEPT ![c] = AccentColorOf(callOpts[c])]
    /\ callPc' = [callPc EXCEPT ![c] = "accent"]
    /\ UNCHANGED <<passedOptions, callRef, callEntry, callSource, callBuf, callResult>>
    /\ UNCHANGED <<cropVars, textVars, colorVars, batchVars,
                   ovVars, weekVars, planVars>>

\* Lines 193-204 for call c: the accent resolved from the call's own buffer,
\* the SVG built, the composite awaited.
CallResolve(c) ==
    /\ callPc[c] = "accent"
    /\ callAccent' = [callAccent EXCEPT
                         ![c] = IF NeedsExtraction(callOpts[c].textColor, @)
                                THEN (IF Falsy(callBuf[c].accent) THEN "#FFFFFF"
                                      ELSE callBuf[c].accent)
                                ELSE @]
    /\ callPc' = [callPc EXCEPT ![c] = "composite"]
    /\ UNCHANGED <<heap, passedOptions, callRef, callEntry, callSource, callBuf,
                   callOpts, callResult>>
    /\ UNCHANGED <<cropVars, textVars, colorVars, batchVars,
                   ovVars, weekVars, planVars>>

\* Lines 198-215 for call c: the SVG for the call's buffer and options,
\* composited and returned.
CallComposite(c) ==
    /\ callPc[c] = "composite"
    /\ callResult' = [callResult EXCEPT
          ![c] = [kind |-> "image", width |-> callBuf[c].width,
                  height |-> callBuf[c].height,
                  overlay |-> CreateSvg(OvCaption, DimOrDefault(callBuf[c].width),
                                        DimOrDefault(callBuf[c].height), callOpts[c],
                                        GetColorHex(callOpts[c].textColor,
                                                    callAccent[c]))]]
    /\ callPc' = [callPc EXCEPT ![c] = "done"]
    /\ UNCHANGED <<heap, passedOptions, callRef, callEntry, callSource, callBuf,
                   callOpts, callAccent>>
    /\ UNCHANGED <<cropVars, textVars, colorVars, batchVars,
                   ovVars, weekVars, planVars>>

NextCalls ==
    \E c \in Calls :
        \/ CallCrop(c)
        \/ CallEnter(c)
        \/ CallScale(c)
        \/ CallResolve(c)
        \/ CallComposite(c)

SpecCalls == InitCalls /\ [][NextCalls]_vars


(***************************************************************************)
(* The week export route: POST of app/api/export/week/route.ts.  The       *)
(* route walks the days of the plan and the images of each day, renders    *)
(* every captioned image of an exportable day, writes it into the export   *)
(* directory and finally writes metadata.json and zips the directory.      *)
(***************************************************************************)
MaxDayImages == 2

NoCaption == [text |-> "", category |-> "", missing |-> TRUE]

\* day.status === 'complete' || day.status === 'captions-selected'
Exportable(day) == day.status \in {"complete", "captions-selected"}

\* image.selectedCaption is truthy
HasCaption(image) == image.selectedCaption # NoCaption

\* String.prototype.toLowerCase on the day names of a plan.
ToLowerCase(str) ==
    CASE str = "Monday" -> "monday"
      [] str = "Tuesday" -> "tuesday"
      [] OTHER -> str

\* String(n).padStart(2, '0') for the indices of a day's images.
PadStart2(n) == IF n < 10 THEN <<"0", n>> ELSE <<n \div 10, n % 10>>

\* slugify of lib/utils, imported at line 18: a function of the category
\* alone; the route applies it to the same category at lines 92 and 162.
Slugify(category) == <<"slug", category>>

\* `${daySlug}-${String(i + 1).padStart(2, '0')}-${categorySlug}.jpg`
Filename(dayOfWeek, index, category) ==
    <<ToLowerCase(dayOfWeek), PadStart2(index), Slugify(category), "jpg">>

\* day.images.filter(img => img.selectedCaption), as the positions kept.
CaptionedPositions(images) ==
    SelectSeq([i \in 1..Len(images) |-> i], LAMBDA i : HasCaption(images[i]))

\* weekPlan.days.filter(exportable), as the positions kept.
ExportablePositions(days) ==
    SelectSeq([d \in 1..Len(days) |-> d], LAMBDA d : Exportable(days[d]))

\* The images array of one day in metadata.json: the captioned images,
\* numbered by their position in the filtered list.
MetadataImages(day) ==
    LET kept == CaptionedPositions(day.images)
    IN  [index \in 1..Len(kept) |->
            [filename |-> Filename(day.dayOfWeek, index,
                                   day.images[kept[index]].selectedCaption.category),
             caption  |-> day.images[kept[index]].selectedCaption.text,
             category |-> day.images[kept[index]].selectedCaption.category]]

\* The metadata object of lines 149-172.
Metadata(plan, processed, failed) ==
    LET kept == ExportablePositions(plan.days)
    IN  [totalImages  |-> processed,
         failedImages |-> failed,
         days |-> [j \in 1..Len(kept) |->
                      [dayOfWeek |-> plan.days[kept[j]].dayOfWeek,
                       images    |-> MetadataImages(plan.days[kept[j]])]]]

WeekDayNames == <<"Monday", "Tuesday">>
WeekStatuses == {"captions-generated", "captions-selected", "complete"}
SelectedCaptions == {NoCaption,
                     [text |-> "rest day", category |-> "Rest Day", missing |-> FALSE]}

\* The images of one day: up to MaxDayImages images, each with its own
\* highResUrl and with or without a selected caption.
DayImages(dayOfWeek) ==
    UNION {{[i \in 1..n |-> [highResUrl |-> <<dayOfWeek, i>>,
                             selectedCaption |-> c[i]]] :
              c \in [1..n -> SelectedCaptions]} : n \in 0..MaxDayImages}

WeekPlans ==
    {[days |-> [d \in 1..Len(WeekDayNames) |->
                   [dayOfWeek |-> WeekDayNames[d],
                    status    |-> st[d],
                    images    |-> im[d]]],
      missing |-> FALSE] :
        st \in [1..Len(WeekDayNames) -> WeekStatuses],
        im \in {f \in [1..Len(WeekDayNames) ->
                          UNION {DayImages(WeekDayNames[d]) : d \in 1..Len(WeekDayNames)}] :
                  \A d \in 1..Len(WeekDayNames) : f[d] \in DayImages(WeekDayNames[d])}}
    \cup {NoWeekPlan}

InitWeekExport ==
    /\ weekPlan \in WeekPlans
    /\ wkPc = "start"
    /\ wkDay = 1
    /\ wkImg = 1
    /\ exportDir = NoDirectory
    /\ exportedImages = <<>>
    /\ totalProcessed = 0
    /\ totalFailed = 0
    /\ wkAttempts = <<>>
    /\ wkMetadata = NoMetadata
    /\ wkResponse = NoResponse
    /\ CropIdle
    /\ TextIdle
    /\ ColorIdle
    /\ BatchIdle
    /\ OvIdle
    /\ CallsIdle
    /\ PlannerIdle

WeekOthersUnchanged ==
    UNCHANGED <<cropVars, textVars, colorVars, batchVars, ovVars, callVars, planVars>>

\* Lines 43-48: a body without a week plan is answered with 400.
WkMissingPlan ==
    /\ wkPc = "start"
    /\ weekPlan.missing
    /\ wkResponse' = [status |-> 400, error |-> "Week plan is required"]
    /\ wkPc' = "done"
    /\ UNCHANGED <<weekPlan, wkDay, wkImg, exportDir, exportedImages,
                   totalProcessed, totalFailed, wkAttempts, wkMetadata>>
    /\ WeekOthersUnchanged

\* Lines 51-60: a plan without an exportable day is answered with 400
\* before any directory is created.
WkNoDays ==
    /\ wkPc = "start"
    /\ ~weekPlan.missing
    /\ Len(ExportablePositions(weekPlan.days)) = 0
    /\ wkResponse' = [status |-> 400, error |-> "No completed days to export"]
    /\ wkPc' = "done"
    /\ UNCHANGED <<weekPlan, wkDay, wkImg, exportDir, exportedImages,
                   totalProcessed, totalFailed, wkAttempts, wkMetadata>>
    /\ WeekOthersUnchanged

\* Lines 63-68: createExportDirectory and the counters.
WkCreateDirectory ==
    /\ wkPc = "start"
    /\ ~weekPlan.missing
    /\ Len(ExportablePositions(weekPlan.days)) > 0
    /\ exportDir' = [exists |-> TRUE, files |-> {}]
    /\ exportedImages' = <<>>
    /\ totalProcessed' = 0
    /\ totalFailed' = 0
    /\ wkDay' = 1
    /\ wkImg' = 1
    /\ wkPc' = "loop"
    /\ UNCHANGED <<weekPlan, wkAttempts, wkMetadata, wkResponse>>
    /\ WeekOthersUnchanged

\* Lines 72-78 and the end of the inner loop: a day that is not exportable
\* or has no images is skipped, and a day whose images are all visited is
\* left.
WkNextDay ==
    /\ wkPc = "loop"
    /\ wkDay <= Len(weekPlan.days)
    /\ \/ ~Exportable(weekPlan.days[wkDay])
       \/ wkImg > Len(weekPlan.days[wkDay].images)
    /\ wkDay' = wkDay + 1
    /\ wkImg' = 1
    /\ UNCHANGED <<weekPlan, wkPc, exportDir, exportedImages, totalProcessed,
                   totalFailed, wkAttempts, wkMetadata, wkResponse>>
    /\ WeekOthersUnchanged

\* The image the loops are at, when there is one.
AtImage ==
    /\ wkPc = "loop"
    /\ wkDay <= Len(weekPlan.days)
    /\ Exportable(weekPlan.days[wkDay])
    /\ wkImg <= Len(weekPlan.days[wkDay].images)

\* Lines 86-88: an image without a selected caption is skipped.
WkSkipImage ==
    /\ AtImage
    /\ ~HasCaption(weekPlan.days[wkDay].images[wkImg])
    /\ wkImg' = wkImg + 1
    /\ UNCHANGED <<weekPlan, wkPc, wkDay, exportDir, exportedImages, totalProcessed,
                   totalFailed, wkAttempts, wkMetadata, wkResponse>>
    /\ WeekOthersUnchanged

\* Lines 90-132: the image is processed, written and counted.
WkImageOk ==
    /\ AtImage
    /\ HasCaption(weekPlan.days[wkDay].images[wkImg])
    /\ LET day      == weekPlan.days[wkDay]
           image    == day.images[wkImg]
           filename == Filename(day.dayOfWeek, wkImg, image.selectedCaption.category)
       IN  /\ wkAttempts' = Append(wkAttempts, image.highResUrl)
           /\ exportDir' = [exportDir EXCEPT !.files =
                  {f \in @ : f.filename # filename}
                      \cup {[filename |-> filename, image |-> image.highResUrl]}]
           /\ exportedImages' = Append(exportedImages,
                  [day |-> day.dayOfWeek, index |-> wkImg, filename |-> filename])
    /\ totalProcessed' = totalProcessed + 1
    /\ wkImg' = wkImg + 1
    /\ UNCHANGED <<weekPlan, wkPc, wkDay, totalFailed, wkMetadata, wkResponse>>
    /\ WeekOthersUnchanged

\* Mutant: a failing image ends the export with the error response.
WkImageFails_Aborts ==
    /\ AtImage
    /\ HasCaption(weekPlan.days[wkDay].images[wkImg])
    /\ wkAttempts' = Append(wkAttempts, weekPlan.days[wkDay].images[wkImg].highResUrl)
    /\ wkResponse' = [status |-> 500, error |-> "Failed to process image"]
    /\ wkPc' = "done"
    /\ UNCHANGED <<weekPlan, wkDay, wkImg, exportDir, exportedImages,
                   totalProcessed, totalFailed, wkMetadata>>
    /\ WeekOthersUnchanged

\* Lines 133-136: the image fails; the failure is logged and counted and
\* the loop goes on.
WkImageFails ==
    /\ AtImage
    /\ HasCaption(weekPlan.days[wkDay].images[wkImg])
    /\ wkAttempts' = Append(wkAttempts, weekPlan.days[wkDay].images[wkImg].highResUrl)
    /\ totalFailed' = totalFailed + 1
    /\ wkImg' = wkImg + 1
    /\ UNCHANGED <<weekPlan, wkPc, wkDay, exportDir, exportedImages,
                   totalProcessed, wkMetadata, wkResponse>>
    /\ WeekOthersUnchanged

\* Lines 140-146: nothing was processed; the directory is removed and the
\* response is 500.
WkNoneProcessed ==
    /\ wkPc = "loop"
    /\ wkDay > Len(weekPlan.days)
    /\ totalProcessed = 0
    /\ exportDir' = NoDirectory
    /\ wkResponse' = [status |-> 500,
                      error |-> "No images were successfully processed"]
    /\ wkPc' = "done"
    /\ UNCHANGED <<weekPlan, wkDay, wkImg, exportedImages, totalProcessed,
                   totalFailed, wkAttempts, wkMetadata>>
    /\ WeekOthersUnchanged

\* Lines 149-198: metadata.json is written, the directory is zipped and
\* removed, and the response is 200 with the counters.
WkRespond ==
    /\ wkPc = "loop"
    /\ wkDay > Len(weekPlan.days)
    /\ totalProcessed # 0
    /\ wkMetadata' = Metadata(weekPlan, totalProcessed, totalFailed)
    /\ exportDir' = [exportDir EXCEPT !.exists = FALSE]
    /\ wkResponse' = [status |-> 200,
                      totalImages  |-> totalProcessed,
                      failedImages |-> totalFailed,
                      daysExported |-> Len(ExportablePositions(weekPlan.days))]
    /\ wkPc' = "done"
    /\ UNCHANGED <<weekPlan, wkDay, wkImg, exportedImages, totalProcessed,
                   totalFailed, wkAttempts>>
    /\ WeekOthersUnchanged

NextWeekExport ==
    \/ WkMissingPlan
    \/ WkNoDays
    \/ WkCreateDirectory
    \/ WkNextDay
    \/ WkSkipImage
    \/ WkImageOk
    \/ WkImageFails
    \/ WkNoneProcessed
    \/ WkRespond

SpecWeekExport == InitWeekExport /\ [][NextWeekExport]_vars


(***************************************************************************)
(* The day planner: one mounted DayPlanner with its image browser          *)
(* (CosmosBrowserForSelection) and its CaptionSelector.  The handlers are  *)
(* guarded by what is rendered: the browser and the Generate button in     *)
(* 'browse' view, the caption selector in 'select' view with Continue      *)
(* shown when every image has a caption, Mark Complete in 'finalize' view  *)
(* while the day is not complete.                                          *)
(***************************************************************************)
MaxCatalogue == 7
MaxCaptionOptions == 1

\* maxImages={6}, DayPlanner.tsx line 278.
maxImages == 6

\* The cosmosIds of the images the browser shows.
Catalogue == 1..MaxCatalogue

\* selectedImages.filter(i => i.cosmosId !== image.cosmosId)
Without(selectedImages, image) ==
    SelectSeq(selectedImages, LAMBDA i : i # image)

\* Mutant: the limit tested with <=.
Toggled_UpTo(selectedImages, image) ==
    IF \E k \in 1..Len(selectedImages) : selectedImages[k] = image
    THEN Without(selectedImages, image)
    ELSE IF Len(selectedImages) <= maxImages
         THEN Append(selectedImages, image)
         ELSE selectedImages

\* toggleSelection: the list handed to onSelectionChange, the list itself
\* when the handler makes no call.
Toggled(selectedImages, image) ==
    IF \E k \in 1..Len(selectedImages) : selectedImages[k] = image
    THEN Without(selectedImages, image)
    ELSE IF Len(selectedImages) < maxImages
         THEN Append(selectedImages, image)
         ELSE selectedImages

\* The overlaySettings of a new image, lines 86-97.
DefaultOverlaySettings ==
    [x |-> 50, y |-> 80, fontSize |-> 34, width |-> 80, textAlign |-> "center",
     textColor |-> "white", imageScale |-> 1, imageOffsetX |-> 0, imageOffsetY |-> 0]

\* The settings the caption selector can hand over: the defaults, or the
\* text moved.
OverlaySettingsChoices ==
    {DefaultOverlaySettings, [DefaultOverlaySettings EXCEPT !.x = 25, !.y = 40]}

\* The images built from a response whose results carry n caption options.
NewImages(cosmosImages, n) ==
    [index \in 1..Len(cosmosImages) |->
        [cosmosId        |-> cosmosImages[index],
         captionOptions  |-> n,
         selectedCaption |-> JsNull,
         overlaySettings |-> DefaultOverlaySettings]]

\* The k-th caption option of an image.
CaptionOption(k) == IF k = 1 THEN "caption 1" ELSE IF k = 2 THEN "caption 2" ELSE "caption 3"

\* Mutant: some image has a caption.
AllSelected_Some(images) ==
    \E k \in 1..Len(images) : images[k].selectedCaption # JsNull

\* images.every(img => img.selectedCaption !== null)
AllSelected(images) ==
    \A k \in 1..Len(images) : images[k].selectedCaption # JsNull

GenerateFailures == {"Failed to generate captions"}

PlannerOthersUnchanged ==
    UNCHANGED <<cropVars, textVars, colorVars, batchVars, ovVars, callVars, weekVars>>

\* The state initializer of viewMode, lines 32-37.
InitialViewMode(status) ==
    IF status \in {"complete", "captions-selected"} THEN "finalize"
    ELSE IF status = "captions-generated" THEN "select"
    ELSE IF status = "images-selected" THEN "generate"
    ELSE "browse"

PlannerOthersIdle ==
    /\ CropIdle
    /\ TextIdle
    /\ ColorIdle
    /\ BatchIdle
    /\ OvIdle
    /\ CallsIdle
    /\ WeekIdle

\* A planner opened on a pending day, nothing selected yet.
InitSelection ==
    /\ plannerDay = PendingDay
    /\ viewMode = InitialViewMode(plannerDay.status)
    /\ selectedCosmosImages = <<>>
    /\ isGenerating = FALSE
    /\ plannerError = NoError
    /\ generateRequest = <<>>
    /\ lastCall = NoCall
    /\ mounted = TRUE
    /\ PlannerOthersIdle

\* A planner on a pending day in which five or six images were selected.
InitPlanner ==
    /\ plannerDay = PendingDay
    /\ viewMode = InitialViewMode(plannerDay.status)
    /\ selectedCosmosImages \in {<<1, 2, 3, 4, 5>>, <<1, 2, 3, 4, 5, 6>>}
    /\ isGenerating = FALSE
    /\ plannerError = NoError
    /\ generateRequest = <<>>
    /\ lastCall = NoCall
    /\ mounted = TRUE
    /\ PlannerOthersIdle

\* toggleSelection(image), lines 509-516, with handleImagesSelected.
ToggleSelection(image) ==
    /\ mounted
    /\ viewMode = "browse"
    /\ selectedCosmosImages' = Toggled(selectedCosmosImages, image)
    /\ lastCall' = [handler |-> "toggleSelection", image |-> image,
                    before |-> selectedCosmosImages]
    /\ UNCHANGED <<plannerDay, viewMode, isGenerating, plannerError,
                   generateRequest, mounted>>
    /\ PlannerOthersUnchanged

\* handleGenerateCaptions, lines 55-58: refused with fewer than 6 images.
GenerateRefused ==
    /\ mounted
    /\ viewMode = "browse"
    /\ ~isGenerating
    /\ Len(selectedCosmosImages) < 6
    /\ plannerError' = "Please select at least 6 images"
    /\ lastCall' = [handler |-> "handleGenerateCaptions", image |-> 0,
                    before |-> selectedCosmosImages]
    /\ UNCHANGED <<plannerDay, viewMode, selectedCosmosImages, isGenerating,
                   generateRequest, mounted>>
    /\ PlannerOthersUnchanged

\* handleGenerateCaptions, lines 60-72: the request is sent.
GenerateStart ==
    /\ mounted
    /\ viewMode = "browse"
    /\ ~isGenerating
    /\ Len(selectedCosmosImages) >= 6
    /\ isGenerating' = TRUE
    /\ plannerError' = NoError
    /\ generateRequest' = selectedCosmosImages
    /\ lastCall' = [handler |-> "handleGenerateCaptions", image |-> 0,
                    before |-> selectedCosmosImages]
    /\ UNCHANGED <<plannerDay, viewMode, selectedCosmosImages, mounted>>
    /\ PlannerOthersUnchanged

\* Lines 74-107 and 114: the response carries results; the day gets the new
\* images, none with a caption yet, and the view becomes 'select'.
GenerateSucceeds(n) ==
    /\ mounted
    /\ isGenerating
    /\ plannerDay' = [plannerDay EXCEPT !.images = NewImages(generateRequest, n),
                                        !.status = "captions-generated"]
    /\ viewMode' = "select"
    /\ isGenerating' = FALSE
    /\ generateRequest' = <<>>
    /\ UNCHANGED <<selectedCosmosImages, plannerError, lastCall, mounted>>
    /\ PlannerOthersUnchanged

\* Lines 108-114: the response reports a failure, or fetch throws.
GenerateFails(message) ==
    /\ mounted
    /\ isGenerating
    /\ plannerError' = message
    /\ isGenerating' = FALSE
    /\ generateRequest' = <<>>
    /\ UNCHANGED <<plannerDay, viewMode, selectedCosmosImages, lastCall, mounted>>
    /\ PlannerOthersUnchanged

\* handleCaptionSelect, lines 118-132.
HandleCaptionSelect(imageIndex, caption) ==
    /\ mounted
    /\ viewMode = "select"
    /\ imageIndex \in 1..Len(plannerDay.images)
    /\ caption \in {CaptionOption(k) : k \in 1..plannerDay.images[imageIndex].captionOptions}
    /\ LET updatedImages ==
               [plannerDay.images EXCEPT ![imageIndex].selectedCaption = caption]
       IN  plannerDay' = [plannerDay EXCEPT
               !.images = updatedImages,
               !.status = IF AllSelected(updatedImages) THEN "captions-selected"
                          ELSE "captions-generated"]
    /\ UNCHANGED <<viewMode, selectedCosmosImages, isGenerating, plannerError,
                   generateRequest, lastCall, mounted>>
    /\ PlannerOthersUnchanged

\* handleOverlaySettingsChange, lines 134-145.
HandleOverlaySettingsChange(imageIndex, settings) ==
    /\ mounted
    /\ viewMode = "select"
    /\ imageIndex \in 1..Len(plannerDay.images)
    /\ plannerDay' = [plannerDay EXCEPT !.images[imageIndex].overlaySettings = settings]
    /\ UNCHANGED <<viewMode, selectedCosmosImages, isGenerating, plannerError,
                   generateRequest, lastCall, mounted>>
    /\ PlannerOthersUnchanged

\* onProceed, DayPlanner.tsx line 315, behind the Continue button of
\* CaptionSelector.tsx lines 196-205.
Proceed ==
    /\ mounted
    /\ viewMode = "select"
    /\ AllSelected(plannerDay.images)
    /\ viewMode' = "finalize"
    /\ UNCHANGED <<plannerDay, selectedCosmosImages, isGenerating, plannerError,
                   generateRequest, lastCall, mounted>>
    /\ PlannerOthersUnchanged

\* handleFinalize, lines 147-154, behind the Mark Complete button of lines
\* 333-341; onBack closes the planner.
HandleFinalize ==
    /\ mounted
    /\ viewMode = "finalize"
    /\ plannerDay.status # "complete"
    /\ plannerDay' = [plannerDay EXCEPT !.status = "complete"]
    /\ mounted' = FALSE
    /\ UNCHANGED <<viewMode, selectedCosmosImages, isGenerating, plannerError,
                   generateRequest, lastCall>>
    /\ PlannerOthersUnchanged

\* The selection phase: toggles and calls of handleGenerateCaptions, up to
\* the call that sends a request.
NextSelection ==
    \/ \E image \in Catalogue : ~isGenerating /\ ToggleSelection(image)
    \/ GenerateRefused
    \/ GenerateStart

SpecSelection == InitSelection /\ [][NextSelection]_vars

NextPlanner ==
    \/ GenerateRefused
    \/ GenerateStart
    \/ \E n \in 1..MaxCaptionOptions : GenerateSucceeds(n)
    \/ \E message \in GenerateFailures : GenerateFails(message)
    \/ \E imageIndex \in 1..maxImages, k \in 1..MaxCaptionOptions :
          HandleCaptionSelect(imageIndex, CaptionOption(k))
    \/ \E imageIndex \in 1..maxImages, settings \in OverlaySettingsChoices :
          HandleOverlaySettingsChange(imageIndex, settings)
    \/ Proceed
    \/ HandleFinalize

SpecPlanner == InitPlanner /\ [][NextPlanner]_vars


(***************************************************************************)
(* Inputs of the crop resolver.                                            *)
(***************************************************************************)
\* 0 stands for an absent metadata dimension.
SourceDims == (0 .. MaxDim) \cup {1000, 2000}

\* 4:5 is what processImageForExport asks for; the others exercise both
\* branches of the ratio comparison.
TargetAspects == {<<4, 5>>, <<1, 1>>, <<16, 9>>, <<1, 3>>}

\* <<0,1>> is an absent imageScale, <<1,2>> a factor below 1.
ImageScales == {<<0, 1>>, <<1, 2>>, <<1, 1>>, <<11, 10>>, <<3, 2>>, <<2, 1>>,
                <<3, 1>>, <<50, 1>>}

OffsetPcts == {-50, -33, 0, 25, 50}

InitCrop ==
    /\ metaWidth \in SourceDims
    /\ metaHeight \in SourceDims
    /\ \E t \in TargetAspects : targetWidth = t[1] /\ targetHeight = t[2]
    /\ cropOptions \in [imageScale : ImageScales,
                        imageOffsetX : OffsetPcts,
                        imageOffsetY : OffsetPcts]
    /\ cropRect = NoRect
    /\ cropPc = "start"
    /\ TextIdle
    /\ ColorIdle
    /\ BatchIdle
    /\ OvIdle
    /\ CallsIdle
    /\ WeekIdle
    /\ PlannerIdle

\* One call of applyImageTransformAndCrop.
Crop ==
    /\ cropPc = "start"
    /\ cropRect' = ApplyImageTransformAndCrop(metaWidth, metaHeight,
                                              targetWidth, targetHeight, cropOptions)
    /\ cropPc' = "done"
    /\ UNCHANGED <<metaWidth, metaHeight, targetWidth, targetHeight, cropOptions>>
    /\ UNCHANGED <<textVars, colorVars, batchVars, ovVars,
                   callVars, weekVars, planVars>>

NextCrop == Crop

SpecCrop == InitCrop /\ [][NextCrop]_vars

imgWidth == DimOrDefault(metaWidth)
imgHeight == DimOrDefault(metaHeight)
ScaleAtLeastOne == cropOptions.imageScale[1] >= cropOptions.imageScale[2]
OffsetsInRange ==
    /\ cropOptions.imageOffsetX \in -50 .. 50
    /\ cropOptions.imageOffsetY \in -50 .. 50

(***************************************************************************)
(* Claims about the crop resolver, checked under SpecCrop.                 *)
(***************************************************************************)
\* a/b >= c/d for zoom factors <<a,b>>, <<c,d>> with positive denominators.
ScaleGeq(s2, s1) == s2[1] * s1[2] >= s1[1] * s2[2]

RectFor(imageScale) ==
    ApplyImageTransformAndCrop(metaWidth, metaHeight, targetWidth, targetHeight,
                               [cropOptions EXCEPT !.imageScale = imageScale])

\* C1 (crop containment): for every source size, every positive target
\* aspect, every imageScale >= 1 and offsets in [-50,50], the rectangle passed
\* to extract lies inside the source: left >= 0, top >= 0,
\* left + width <= sourceWidth, top + height <= sourceHeight.
C1_CropContainment ==
    (cropPc = "done" /\ ScaleAtLeastOne /\ OffsetsInRange) =>
        /\ cropRect.left >= 0
        /\ cropRect.top >= 0
        /\ cropRect.left + cropRect.width <= imgWidth
        /\ cropRect.top + cropRect.height <= imgHeight

\* A zoomed crop panned fully to the right edge and fully to the top.
C1_Witness ==
    /\ cropPc = "done" /\ ScaleAtLeastOne /\ OffsetsInRange
    /\ cropOptions.imageOffsetX = 50 /\ cropOptions.imageOffsetY = -50
    /\ cropRect.left > 0
    /\ cropRect.left + cropRect.width = imgWidth
    /\ cropRect.top = 0 /\ cropRect.height < imgHeight

\* C2 (aspect adherence): with imageScale 1 and both offsets 0 one dimension
\* of the crop is the full source dimension and the other is that dimension
\* times (or divided by) the target ratio, rounded: it is within half a pixel,
\* hence within one pixel, of the exact targetW:targetH rectangle.
C2_AspectAdherence ==
    (/\ cropPc = "done"
     /\ cropOptions.imageScale = <<1, 1>>
     /\ cropOptions.imageOffsetX = 0 /\ cropOptions.imageOffsetY = 0) =>
        \/ /\ cropRect.height = imgHeight
           /\ 2 * Abs(cropRect.width * targetHeight - imgHeight * targetWidth)
                <= targetHeight
        \/ /\ cropRect.width = imgWidth
           /\ 2 * Abs(cropRect.height * targetWidth - imgWidth * targetHeight)
                <= targetWidth

\* A crop that really cuts the width and whose width needed rounding.
C2_Witness ==
    /\ cropPc = "done"
    /\ cropOptions.imageScale = <<1, 1>>
    /\ cropOptions.imageOffsetX = 0 /\ cropOptions.imageOffsetY = 0
    /\ cropRect.height = imgHeight
    /\ cropRect.width < imgWidth
    /\ cropRect.width * targetHeight # imgHeight * targetWidth

\* C3 (zoom monotonicity): source, target aspect and offsets fixed, a zoom
\* factor at least as large (both >= 1) never gives a wider or a taller crop.
C3_ZoomMonotone ==
    (cropPc = "done" /\ ScaleAtLeastOne) =>
        \A s2 \in ImageScales :
            ScaleGeq(s2, cropOptions.imageScale) =>
                /\ RectFor(s2).width <= cropRect.width
                /\ RectFor(s2).height <= cropRect.height

\* A crop for which some larger zoom gives a strictly smaller window, and
\* another larger zoom gives the same one (the pixel floor).
C3_Witness ==
    /\ cropPc = "done" /\ ScaleAtLeastOne
    /\ \E s2 \in ImageScales :
          /\ ScaleGeq(s2, cropOptions.imageScale)
          /\ RectFor(s2).width < cropRect.width
          /\ RectFor(s2).height < cropRect.height
    /\ \E s3 \in ImageScales :
          /\ s3 # cropOptions.imageScale
          /\ ScaleGeq(s3, cropOptions.imageScale)
          /\ RectFor(s3).width = cropRect.width

IsScenario2000x1000 ==
    /\ metaWidth = 2000 /\ metaHeight = 1000
    /\ targetWidth = 4 /\ targetHeight = 5
    /\ cropOptions = [imageScale |-> <<1, 1>>, imageOffsetX |-> 0, imageOffsetY |-> 0]

\* C4 (end-to-end crop scenario): a 2000x1000 source, target 4:5, imageScale 1
\* and offsets 0 resolve to exactly left=600, top=0, width=800, height=1000.
C4_Scenario ==
    (cropPc = "done" /\ IsScenario2000x1000) =>
        cropRect = [left |-> 600, top |-> 0, width |-> 800, height |-> 1000]

C4_Witness ==
    /\ cropPc = "done" /\ IsScenario2000x1000
    /\ cropRect.left = 600 /\ cropRect.width = 800

(***************************************************************************)
(* Claims about the text layout, checked under SpecText.                   *)
(***************************************************************************)
\* words.join(' ')
RECURSIVE JoinWords(_)
JoinWords(words) ==
    IF words = <<>> THEN <<>>
    ELSE IF Len(words) = 1 THEN words[1]
    ELSE words[1] \o <<" ">> \o JoinWords(Tail(words))

HasSpace(line) == \E p \in 1 .. Len(line) : line[p] = " "

\* The characters of a line before its first space.
RECURSIVE FirstWord(_)
FirstWord(line) ==
    IF line = <<>> \/ Head(line) = " " THEN <<>>
    ELSE <<Head(line)>> \o FirstWord(Tail(line))

\* C5 (word-wrap never splits words): for maxCharsPerLine >= 1 every line of
\* wrapText is a run of whole consecutive words of the input joined by single
\* spaces, and a word longer than maxCharsPerLine stands alone on a line.
C5_NeverSplitsWords ==
    (textPc = "done" /\ charsPerLine >= 1) =>
        LET words == Split(textCaption)
        IN  /\ \A k \in 1 .. Len(textLines) :
                  \E i \in 1 .. Len(words) : \E j \in i .. Len(words) :
                      textLines[k] = JoinWords(SubSeq(words, i, j))
            /\ \A i \in 1 .. Len(words) :
                  Len(words[i]) > charsPerLine =>
                      \E k \in 1 .. Len(textLines) : textLines[k] = words[i]

\* Two lines or more, one of them a single word over the budget, another
\* holding two words.
C5_Witness ==
    /\ textPc = "done" /\ charsPerLine >= 1
    /\ Len(textLines) >= 2
    /\ \E k \in 1 .. Len(textLines) :
          ~HasSpace(textLines[k]) /\ Len(textLines[k]) > charsPerLine
    /\ \E k \in 1 .. Len(textLines) :
          HasSpace(textLines[k]) /\ textLines[k][Len(textLines[k])] # " "

\* C6 (greedy wrap line budget): the budget is
\* floor(boxWidth / (fontSize * 0.55)) with boxWidth = imageWidth * width/100;
\* every line of two or more words is at most that long; and the word that
\* starts a line would not have fitted, with one space, on the line before.
C6_GreedyBudget ==
    (textPc = "done" /\ textOptions.fontSize > 0) =>
        /\ charsPerLine =
              (textImageWidth * textOptions.width) \div (55 * textOptions.fontSize)
        /\ \A k \in 1 .. Len(textLines) :
              HasSpace(textLines[k]) => Len(textLines[k]) <= charsPerLine
        /\ \A k \in 2 .. Len(textLines) :
              Len(textLines[k - 1]) + 1 + Len(FirstWord(textLines[k])) > charsPerLine

\* Two lines or more, a two-word line that fills the budget exactly.
C6_Witness ==
    /\ textPc = "done" /\ textOptions.fontSize > 0
    /\ Len(textLines) >= 2
    /\ \E k \in 1 .. Len(textLines) :
          /\ HasSpace(textLines[k]) /\ Len(textLines[k]) = charsPerLine
          /\ textLines[k][Len(textLines[k])] # " "

Entities == {EntAmp, EntLt, EntGt, EntQuot, EntApos}

EntityChar(entity) ==
    CASE entity = EntAmp -> "&"
      [] entity = EntLt -> "<"
      [] entity = EntGt -> ">"
      [] entity = EntQuot -> "\""
      [] entity = EntApos -> "'"

StartsWith(text, prefix) ==
    Len(prefix) <= Len(text) /\ SubSeq(text, 1, Len(prefix)) = prefix

\* An XML reader's view of text content: each entity read as its character.
RECURSIVE UnescapeXml(_)
UnescapeXml(text) ==
    IF text = <<>> THEN <<>>
    ELSE IF \E e \in Entities : StartsWith(text, e)
         THEN LET e == CHOOSE e \in Entities : StartsWith(text, e)
              IN  <<EntityChar(e)>> \o UnescapeXml(SubSeq(text, Len(e) + 1, Len(text)))
         ELSE <<Head(text)>> \o UnescapeXml(Tail(text))

\* C7 (XML escaping): the content of every emitted <text> element holds no raw
\* < > " or apostrophe, every & in it starts one of the five entities, and
\* reading the entities back gives the wrapped line it was made from.
C7_XmlEscaping ==
    textPc = "done" =>
        /\ Len(textEscaped) = Len(textLines)
        /\ \A k \in 1 .. Len(textEscaped) :
              LET e == textEscaped[k]
              IN  /\ \A p \in 1 .. Len(e) : e[p] \notin {"<", ">", "\"", "'"}
                  /\ \A p \in 1 .. Len(e) :
                        e[p] = "&" =>
                            \E ent \in Entities :
                                StartsWith(SubSeq(e, p, Len(e)), ent)
                  /\ UnescapeXml(e) = textLines[k]

\* A line that already spells an entity, followed by a raw '<'.
C7_Witness ==
    /\ textPc = "done"
    /\ \E k \in 1 .. Len(textLines) :
          /\ textLines[k] = <<"&", "l", "t", ";", "<">>
          /\ textEscaped[k] = EntAmp \o <<"l", "t", ";">> \o EntLt

(***************************************************************************)
(* Claims about the colour analysis, checked under SpecAccent and          *)
(* SpecContrast.                                                           *)
(***************************************************************************)
\* The exclusion rules in the claim's words, on a bucket's average colour
\* (sums against count): near-black, near-white, channel spread below 20,
\* saturation at most 0.2.
Excluded(c) ==
    LET n == c.count
        hi == Max3(c.r, c.g, c.b)
        lo == Min3(c.r, c.g, c.b)
    IN  \/ hi < 30 * n
        \/ lo > 225 * n
        \/ hi - lo < 20 * n
        \/ 5 * (hi - lo) <= hi

\* The ten most frequent buckets, as extractAccentColor holds them.
TopTen == dominantColors

Survivors == {i \in 1 .. Len(TopTen) : ~Excluded(TopTen[i])}

\* C8 (accent-colour exclusion): extractAccentColor returns null when every
\* one of the ten most frequent buckets is near-black, near-white, near-gray
\* or of saturation <= 0.2, in particular for an image of mid-gray pixels
\* only; otherwise it returns the hex of a surviving bucket whose saturation
\* no other survivor exceeds.
C8_AccentExclusion ==
    accentPc = "done" =>
        /\ Survivors = {} => accentHex = Null
        /\ Survivors # {} =>
              \E i \in Survivors :
                  /\ accentHex = RgbToHex(TopTen[i])
                  /\ \A j \in Survivors :
                        ~FracGt(Saturation(TopTen[j]), Saturation(TopTen[i]))
        /\ (\A p \in 1 .. Len(pixels) : pixels[p] = Rgb(128, 128, 128)) =>
              accentHex = Null

\* null although the image holds a saturated colour: its bucket is not
\* among the ten most frequent, which are all excluded.
C8_Witness ==
    /\ accentPc = "done"
    /\ accentHex = Null
    /\ Len(TopTen) = 10
    /\ \E p \in 1 .. Len(pixels) :
          ~Excluded([count |-> 1, r |-> pixels[p].r, g |-> pixels[p].g,
                     b |-> pixels[p].b])

AccentSupplied == accentColor # NoAccent
WhiteContrast == ContrastRatio(backgroundColor, White)
BlackContrast == ContrastRatio(backgroundColor, Black)
AccentContrast == ContrastRatio(backgroundColor, ParseAccent(accentColor))

\* C9 (contrast selection rule): getBestTextColor returns 'accent' exactly
\* when an accent is supplied whose contrast against the background is
\* >= 4.5 and >= both the white and the black contrast; otherwise the one of
\* white and black with the higher contrast, white on a tie.  Without accent
\* (10,10,10) gives 'white' and (245,245,245) gives 'black'.
C9_ContrastSelection ==
    contrastPc = "done" =>
        /\ bestTextColor = "accent" <=>
              /\ AccentSupplied
              /\ 2 * AccentContrast[1] >= 9 * AccentContrast[2]
              /\ RatioGeq(AccentContrast, WhiteContrast)
              /\ RatioGeq(AccentContrast, BlackContrast)
        /\ bestTextColor # "accent" =>
              bestTextColor = IF RatioGeq(WhiteContrast, BlackContrast)
                              THEN "white" ELSE "black"
        /\ (~AccentSupplied /\ backgroundColor = Rgb(10, 10, 10)) =>
              bestTextColor = "white"
        /\ (~AccentSupplied /\ backgroundColor = Rgb(245, 245, 245)) =>
              bestTextColor = "black"

\* An accent that is chosen: as contrasting as the better of white and black.
C9_Witness ==
    /\ contrastPc = "done"
    /\ AccentSupplied
    /\ bestTextColor = "accent"
    /\ backgroundColor = Rgb(245, 245, 245)

(***************************************************************************)
(* Claims about the batch, checked under SpecBatch.                        *)
(***************************************************************************)
\* C10 (batch order): when batchOverlayCaptions succeeds on n items it returns
\* exactly n buffers, the buffer at index i rendered from items[i]'s image
\* and caption; the route pairs buffer i with items[i]'s caption and URL.
C10_BatchOrder ==
    /\ batchPc = "returned" =>
          /\ Len(results) = Len(reqItems)
          /\ \A i \in 1 .. Len(reqItems) :
                /\ results[i].image = ImageAt(reqItems[i].imageUrl)
                /\ results[i].caption = reqItems[i].caption
    /\ (routePc = "done" /\ response.status = 200 /\ reqReturnType = "base64") =>
          /\ response.count = Len(reqItems)
          /\ \A i \in 1 .. Len(reqItems) :
                /\ response.images[i].imageUrl = reqItems[i].imageUrl
                /\ response.images[i].caption = reqItems[i].caption
                /\ response.images[i].base64.base64Of.image
                      = ImageAt(reqItems[i].imageUrl)
                /\ response.images[i].base64.base64Of.caption = reqItems[i].caption

\* A batch of three items, the first two differing in URL and in caption,
\* answered in order.
C10_Witness ==
    /\ routePc = "done" /\ response.status = 200 /\ reqReturnType = "base64"
    /\ batchPc = "returned"
    /\ Len(reqItems) = 3 /\ Len(results) = 3
    /\ reqItems[1].imageUrl # reqItems[2].imageUrl
    /\ reqItems[1].caption # reqItems[2].caption

\* C11 (batch failure is all-or-nothing): when one item of
\* batchOverlayCaptions fails, the call throws that item's error, the caller
\* gets no buffers (the route answers 500 with the message and without
\* images), and no item after the failing one is fetched or processed.
C11_BatchAllOrNothing ==
    /\ batchPc = "thrown" =>
          /\ batchError \in FetchFailures
          /\ batchIdx <= Len(reqItems)
          /\ fetchLog = [i \in 1 .. batchIdx |-> reqItems[i].imageUrl]
          /\ Len(results) = batchIdx - 1
    /\ batchError # NoError => batchPc = "thrown"
    /\ (routePc = "done" /\ batchPc = "thrown") =>
          /\ response.status = 500
          /\ response.error = batchError
          /\ DOMAIN response = {"status", "error"}

\* The second of three items failed: the third was never fetched and the
\* request was answered 500.
C11_Witness ==
    /\ batchPc = "thrown"
    /\ routePc = "done"
    /\ Len(reqItems) = 3
    /\ batchIdx = 2
    /\ Len(fetchLog) = 2
    /\ reqItems[3].imageUrl # reqItems[2].imageUrl

OptionFields == {"x", "y", "fontSize", "width", "textAlign", "textColor"}

BuiltIn(f) ==
    CASE f = "x" -> 50
      [] f = "y" -> 80
      [] f = "fontSize" -> 34
      [] f = "width" -> 80
      [] f = "textAlign" -> "center"
      [] f = "textColor" -> "white"

Count(trace, step) == Cardinality({i \in 1 .. Len(trace) : trace[i] = step})

\* The text colour the call asks for: the caller's, white when not given.
CallerTextColor ==
    IF "textColor" \in DOMAIN ovOptions THEN ovOptions.textColor ELSE "white"

\* The caller passed an accent colour (a non-empty string).
OvAccentSupplied ==
    "accentColor" \in DOMAIN ovOptions /\ ovOptions.accentColor # ""

AccentResolved == ovPc \in {"svg", "composite", "done"}
SvgBuilt == ovPc \in {"composite", "done"}

\* C13 (lazy accent resolution): overlayCaption calls extractAccentColor
\* exactly when textColor is 'accent' and no accentColor was supplied; for
\* 'black' or 'white', or with a supplied accentColor, nothing is extracted
\* and the supplied accentColor is used unchanged.
C13_LazyAccent ==
    /\ Count(ovTrace, "extractAccentColor") <= 1
    /\ ~AccentResolved => Count(ovTrace, "extractAccentColor") = 0
    /\ AccentResolved =>
          /\ Count(ovTrace, "extractAccentColor") = 1
                <=> (CallerTextColor = "accent" /\ ~OvAccentSupplied)
          /\ OvAccentSupplied =>
                /\ ovAccentColor = ovOptions.accentColor
                /\ ovExtracted = JsUndefined
    /\ (SvgBuilt /\ OvAccentSupplied /\ CallerTextColor = "accent") =>
          ovSvg.fill = ovOptions.accentColor

\* A call with textColor 'accent' and no accentColor, which extracted one.
C13_Witness ==
    /\ ovPc = "done"
    /\ CallerTextColor = "accent"
    /\ ~OvAccentSupplied
    /\ Count(ovTrace, "extractAccentColor") = 1
    /\ ovSvg.fill = "#c82828"

\* C14 (accent fallback): with textColor 'accent', no accent supplied and
\* extractAccentColor returning null, the fill is #FFFFFF and the call does
\* not fail; 'black' always gives #000000 and 'white' #FFFFFF.
C14_AccentFallback ==
    /\ ovExtracted = JsNull => (ovPc # "failed" /\ ovResult.kind # "error")
    /\ SvgBuilt =>
          /\ (CallerTextColor = "accent" /\ ~OvAccentSupplied /\ ovExtracted = JsNull)
                => ovSvg.fill = "#FFFFFF"
          /\ CallerTextColor = "black" => ovSvg.fill = "#000000"
          /\ CallerTextColor = "white" => ovSvg.fill = "#FFFFFF"

\* The extraction found no accent and the image was rendered in white.
C14_Witness ==
    /\ ovPc = "done"
    /\ ovResult.kind = "image"
    /\ CallerTextColor = "accent"
    /\ ovExtracted = JsNull
    /\ ovSvg.fill = "#FFFFFF"

Position(trace, step) == CHOOSE i \in 1 .. Len(trace) : trace[i] = step

\* C15 (crop precedes overlay): in processImageForExport the crop runs first
\* and the overlay is laid out for the cropped image: the SVG is as wide and
\* as high as the crop rectangle, and the x, y and width percentages are
\* taken of the crop rectangle's sides.
C15_CropPrecedesOverlay ==
    (IsExportEntry(ovEntry) /\ SvgBuilt) =>
        /\ Count(ovTrace, "crop") = 1
        /\ Position(ovTrace, "crop") < Position(ovTrace, "createTextSvg")
        /\ ovSvg.width = ovCropRect.width
        /\ ovSvg.height = ovCropRect.height
        /\ ovSvg.boxWidth100 = ovOpts.width * ovCropRect.width
        /\ ovSvg.boxCenterX100 = ovOpts.x * ovCropRect.width
        /\ ovSvg.centerY100 = ovOpts.y * ovCropRect.height

\* An export whose crop is smaller than the source in both directions.
C15_Witness ==
    /\ ovPc = "done"
    /\ ovEntry = "processImageForExport"
    /\ ovCropRect.width < ovSource.width
    /\ ovCropRect.height < ovSource.height
    /\ ovResult.kind = "image"
    /\ ovResult.width = ovCropRect.width

\* The font size the call asks for: the caller's, 34 when not given.
CallerFontSize ==
    IF "fontSize" \in DOMAIN ovOptions THEN ovOptions.fontSize ELSE 34

\* The shorter side of the image overlayCaption works on.
ShortSide == Min(ovImage.width, ovImage.height)

\* C16 as stated (font scaling): the font size used for wrapping, line height
\* and rendering equals the caller's fontSize times min(width, height)/1080.
C16_FontScalingExact ==
    SvgBuilt => 1080 * ovSvg.fontSize = CallerFontSize * ShortSide

\* C16 (font scaling, amended): the font size used for wrapping, line height
\* and rendering is the caller's fontSize times min(width, height)/1080,
\* rounded to the nearest integer (halves upwards).
C16_FontScalingRounded ==
    SvgBuilt =>
        LET used == ovSvg.fontSize
        IN  /\ 2 * 1080 * used <= 2 * CallerFontSize * ShortSide + 1080
            /\ 2 * CallerFontSize * ShortSide + 1080 < 2 * 1080 * (used + 1)
            /\ ovSvg.lineHeight10 = 13 * used
            /\ used = 0 => ovSvg.charsPerLine = Infinity
            /\ used > 0 =>
                  /\ 55 * used * ovSvg.charsPerLine <= ovSvg.boxWidth100
                  /\ ovSvg.boxWidth100 < 55 * used * (ovSvg.charsPerLine + 1)

\* 54 on an 864x1080 crop: 43.2, used as 43.
C16_Witness ==
    /\ ovPc = "done"
    /\ CallerFontSize = 54
    /\ ShortSide = 864
    /\ ovSvg.fontSize = 43

\* C17 as stated (positive font size): with a caller's fontSize > 0 and an
\* image of width and height >= 1, the font size handed to the text layout
\* is > 0.
C17_PositiveFontSize ==
    (AccentResolved /\ "fontSize" \in DOMAIN ovOptions /\ ovOptions.fontSize > 0
        /\ ovImage.width >= 1 /\ ovImage.height >= 1) => ovOpts.fontSize > 0

\* C18 as stated (invalid input fails fast): a call of overlayCaption or
\* processImageForExport with fontSize <= 0 ends in an error and produces
\* no image.
C18_NonPositiveFontSizeFails ==
    (~IsUrlEntry(ovEntry) /\ CallerFontSize <= 0 /\ ovPc \in {"done", "failed"}) =>
        (ovPc = "failed" /\ ovResult.kind = "error")

\* C19 (no retries): a call of overlayCaptionFromUrl or
\* processImageFromUrlForExport fetches the URL exactly once; when the fetch
\* fails or the response is not ok, that error is the call's outcome and
\* neither a second fetch nor a crop or overlay step runs.
C19_NoRetries ==
    IsUrlEntry(ovEntry) =>
        /\ Count(ovTrace, "fetch") <= 1
        /\ ovPc # "fetch" => (Count(ovTrace, "fetch") = 1 /\ ovTrace[1] = "fetch")
        /\ (ovResult.kind = "error" /\ ovResult.message \in OvFetchFailures) =>
              /\ ovPc = "failed"
              /\ ovTrace = <<"fetch">>
              /\ ovImage = NoImage
        /\ (ovPc = "failed" /\ ovTrace = <<"fetch">>) =>
              ovResult.message \in OvFetchFailures

\* The export from a URL whose fetch failed: one fetch, nothing else.
C19_Witness ==
    /\ ovEntry = "processImageFromUrlForExport"
    /\ ovPc = "failed"
    /\ ovResult = Thrown("Failed to fetch image: 404")
    /\ ovTrace = <<"fetch">>

\* C20 as stated (width clamp): the text-box width percentage used for the
\* wrapping width is within [20, 100] for any width in the options.
C20_WidthClamped ==
    SvgBuilt =>
        /\ ovSvg.widthPct \in 20 .. 100
        /\ 20 * ovSvg.width <= ovSvg.boxWidth100
        /\ ovSvg.boxWidth100 <= 100 * ovSvg.width

\* The number of lines laid out.
OvLineCount == Len(ovSvg.lines)

\* C21 (vertical centring and anchors): with n lines and lineHeight =
\* 1.3*fontSize, line i (0-based) has baseline (y/100)*imageHeight -
\* (n*lineHeight)/2 + fontSize + i*lineHeight, so that the block from one
\* font size above the first baseline to n line heights below that is centred
\* on y% of the height; the anchor x is x% of the width for center (middle),
\* half a box width less for left (start), half a box width more for right
\* (end).
C21_VerticalCentring ==
    SvgBuilt =>
        LET n == OvLineCount
            fs == ovSvg.fontSize
            blockTop100 == ovSvg.lineY100[1] - 100 * fs
            blockBottom100 == blockTop100 + 130 * n * fs
        IN  /\ Len(ovSvg.lineY100) = n
            /\ n >= 1 =>
                  /\ blockTop100 + blockBottom100 = 2 * ovOpts.y * ovSvg.height
                  /\ \A k \in 1 .. n :
                        ovSvg.lineY100[k] = ovSvg.lineY100[1] + (k - 1) * 130 * fs
            /\ ovSvg.lineHeight10 = 13 * fs
            /\ ovOpts.textAlign = "center" =>
                  /\ ovSvg.textAnchor = "middle"
                  /\ ovSvg.textX200 = 2 * ovOpts.x * ovSvg.width
            /\ ovOpts.textAlign = "left" =>
                  /\ ovSvg.textAnchor = "start"
                  /\ ovSvg.textX200 = 2 * ovOpts.x * ovSvg.width - ovSvg.boxWidth100
            /\ ovOpts.textAlign = "right" =>
                  /\ ovSvg.textAnchor = "end"
                  /\ ovSvg.textX200 = 2 * ovOpts.x * ovSvg.width + ovSvg.boxWidth100

\* Two lines, right-aligned at x = 25, y = 40 on a 1080x1080 image.
C21_Witness ==
    /\ ovPc = "done"
    /\ OvLineCount = 2
    /\ ovSvg.fontSize > 0
    /\ ovOpts.textAlign = "right"
    /\ ovOpts.y = 40
    /\ ovSvg.height = 1080
    /\ ovSvg.lineY100[1] < ovOpts.y * ovSvg.height + 100 * ovSvg.fontSize

C27_NonDegenerateCrop ==
    (cropPc = "done" /\ metaWidth >= 1 /\ metaHeight >= 1 /\ ScaleAtLeastOne) =>
        (cropRect.width >= 1 /\ cropRect.height >= 1)

NonEmptyWords(words) == SelectSeq(words, LAMBDA w : w # <<>>)

\* The space-delimited words of all lines, read top to bottom.
RECURSIVE WordsOfLines(_)
WordsOfLines(lines) ==
    IF lines = <<>> THEN <<>>
    ELSE Split(Head(lines)) \o WordsOfLines(Tail(lines))

\* C28 (wrap preserves the caption): the non-empty words of wrapText's lines,
\* read top to bottom, are the non-empty space-delimited words of the input
\* in the same order, and no line is empty.
C28_WrapPreservesCaption ==
    textPc = "done" =>
        /\ NonEmptyWords(WordsOfLines(textLines)) = NonEmptyWords(Split(textCaption))
        /\ \A i \in 1 .. Len(textLines) : textLines[i] # <<>>

\* A caption with a double space, wrapped into two or more lines under a
\* budget smaller than one of its words.
C28_Witness ==
    /\ textPc = "done"
    /\ Len(textLines) >= 2
    /\ \E i \in 1 .. Len(textCaption) - 1 :
          textCaption[i] = " " /\ textCaption[i + 1] = " "
    /\ \E i \in 1 .. Len(textLines) : Len(textLines[i]) > charsPerLine
    /\ Len(NonEmptyWords(Split(textCaption))) >= 2

(***************************************************************************)
(* Claims about calls in flight together, checked under SpecCalls.         *)
(***************************************************************************)
\* overlayCaption run on its own: the image it returns for a buffer and the
\* options object's contents.
OverlayAlone(buf, options) ==
    LET merged == Spread(DEFAULT_OPTIONS, options)
        opts == [merged EXCEPT !.fontSize =
                    ScaleFontSize(merged.fontSize, buf.width, buf.height)]
        supplied == AccentColorOf(merged)
        accent == IF opts.textColor = "accent" /\ Falsy(supplied)
                  THEN (IF buf.accent = JsNull THEN "#FFFFFF" ELSE buf.accent)
                  ELSE supplied
    IN  [kind |-> "image", width |-> buf.width, height |-> buf.height,
         overlay |-> CreateSvg(OvCaption, buf.width, buf.height, opts,
                               GetColorHex(opts.textColor, accent))]

\* The call run on its own, from the image and the options as passed.
RunAlone(entry, image, options) ==
    IF entry = "overlayCaption" THEN OverlayAlone(image, options)
    ELSE LET rect == ApplyImageTransformAndCrop(image.width, image.height, 4, 5,
                                                CropOptionsOf(options))
         IN  IF rect.width < 1 \/ rect.height < 1
             THEN Thrown("extract_area: bad extract area")
             ELSE OverlayAlone([width |-> rect.width, height |-> rect.height,
                                valid |-> TRUE, accent |-> image.accent], options)

CallEnded(c) == callPc[c] \in {"done", "failed"}

\* C22 (call independence): each of two interleaved calls, on different
\* images or sharing one options object, ends with the result it has when
\* run alone.
C22_CallIndependence ==
    \A c \in Calls :
        CallEnded(c) =>
            callResult[c] = RunAlone(callEntry[c], callSource[c],
                                     passedOptions[callRef[c]])

\* Two calls sharing one options object with a fontSize, on images of
\* different sizes, the second entered while the first was in flight, both
\* finished with an image.
C22_Witness ==
    /\ callRef[1] = callRef[2]
    /\ "fontSize" \in DOMAIN passedOptions[callRef[1]]
    /\ callSource[1].width = 540 /\ callSource[2].width = 1080
    /\ callPc[1] = "done" /\ callPc[2] = "done"
    /\ callResult[1].kind = "image" /\ callResult[2].kind = "image"
    /\ callResult[1].overlay.fontSize # callResult[2].overlay.fontSize

\* The font size the options object of call c asked for when it was passed.
PassedFontSize(c) ==
    IF "fontSize" \in DOMAIN passedOptions[callRef[c]]
    THEN passedOptions[callRef[c]].fontSize ELSE 34

\* C25 (options are not mutated): the callers' options objects and
\* DEFAULT_OPTIONS keep their contents through every call, and the font size
\* a call uses is the passed fontSize scaled once for the buffer it overlays,
\* whatever ran before it on the same options object, crop step included.
C25_OptionsNotMutated ==
    /\ heap = passedOptions
    /\ heap.DEFAULT_OPTIONS = DEFAULT_OPTIONS
    /\ \A c \in Calls :
          callPc[c] \in {"accent", "composite", "done"} =>
              callOpts[c].fontSize =
                  MathRound(PassedFontSize(c) * Min(callBuf[c].width, callBuf[c].height),
                            1080)

\* An export and an overlay on one shared options object, the export on the
\* smaller image: its font size is scaled for the crop, the other call's for
\* its own image, and the object still holds 54.
C25_Witness ==
    /\ callRef[1] = callRef[2]
    /\ callEntry[1] = "processImageForExport" /\ callEntry[2] = "overlayCaption"
    /\ callPc[1] = "done" /\ callPc[2] = "done"
    /\ callSource[1].width = 540 /\ callSource[2].width = 1080
    /\ "fontSize" \in DOMAIN heap[callRef[1]]
    /\ heap[callRef[1]].fontSize = 54
    /\ callOpts[1].fontSize = 27
    /\ callOpts[2].fontSize = 54

\* The images the export has to render: the captioned images of the
\* exportable days, day by day and, within a day, by index.
RECURSIVE ExportList(_, _)
ExportList(days, d) ==
    IF d > Len(days) THEN <<>>
    ELSE (IF Exportable(days[d])
          THEN [k \in 1..Len(CaptionedPositions(days[d].images)) |->
                   days[d].images[CaptionedPositions(days[d].images)[k]].highResUrl]
          ELSE <<>>) \o ExportList(days, d + 1)

IsPrefix(s, t) == Len(s) <= Len(t) /\ \A k \in 1..Len(s) : s[k] = t[k]

\* The request passed the validation of lines 43-60.
WeekAccepted == ~weekPlan.missing /\ Len(ExportablePositions(weekPlan.days)) > 0

\* The loops attempt the captioned images of the exportable days, each once,
\* in day-then-index order, and count every attempt as processed or failed.
WeekLoopInOrder ==
    /\ IsPrefix(wkAttempts, ExportList(weekPlan.days, 1))
    /\ wkPc = "loop" => totalProcessed + totalFailed = Len(wkAttempts)
    /\ (wkPc = "done" /\ WeekAccepted)
          => /\ wkAttempts = ExportList(weekPlan.days, 1)
             /\ wkResponse.status \in {200, 500}
             /\ wkResponse.status = 200
                   => wkResponse.totalImages + wkResponse.failedImages
                         = Len(ExportList(weekPlan.days, 1))

\* C24 (as amended): the week export attempts every captioned image of a day
\* whose status is 'complete' or 'captions-selected' exactly once, in
\* day-then-index order, whatever failed before; totalImages + failedImages
\* of the 200 response is the number of such images; when the plan has such
\* a day and no image succeeds, the directory is removed and the response is
\* 500; a missing plan or a plan without such a day is answered 400 with no
\* directory created and nothing attempted; other days and uncaptioned
\* images are never processed.
C24_ExportTolerant ==
    /\ WeekLoopInOrder
    /\ (wkPc = "done" /\ WeekAccepted /\ exportedImages = <<>>)
          => ~exportDir.exists /\ wkResponse.status = 500
    /\ (wkPc = "done" /\ ~WeekAccepted)
          => /\ wkResponse.status = 400
             /\ exportDir = NoDirectory
             /\ wkAttempts = <<>>

\* C24 as stated: whenever no image succeeds, the export directory is
\* removed and the response is 500.
C24_NoSuccessIs500 ==
    /\ WeekLoopInOrder
    /\ (wkPc = "done" /\ exportedImages = <<>>)
          => ~exportDir.exists /\ wkResponse.status = 500

\* An export that went on after a failure: a 200 response with a failed
\* image before a processed one, and a day or an image that was passed over.
C24_Witness ==
    /\ wkPc = "done"
    /\ wkResponse.status = 200
    /\ totalFailed >= 1
    /\ Len(wkAttempts) >= 2
    /\ \A f \in exportDir.files : f.image # wkAttempts[1]
    /\ Len(wkAttempts) < Len(weekPlan.days[1].images) + Len(weekPlan.days[2].images)

\* A 500 response of an accepted plan whose every image failed.
C24_WitnessAllFailed ==
    /\ wkPc = "done"
    /\ WeekAccepted
    /\ wkResponse.status = 500
    /\ totalFailed >= 2

\* The number of filenames listed under days[].images[] of a metadata object.
RECURSIVE ListedFilenames(_, _)
ListedFilenames(days, j) ==
    IF j > Len(days) THEN 0
    ELSE Len(days[j].images) + ListedFilenames(days, j + 1)

\* C26: every filename listed under days[].images[] of metadata.json names a
\* file written into the export directory for that same image, and
\* metadata.totalImages is the number of filenames listed.
C26_MetadataMatchesFiles ==
    (wkPc = "done" /\ wkResponse.status = 200)
       => LET kept == ExportablePositions(weekPlan.days)
          IN  /\ \A j \in 1..Len(wkMetadata.days) :
                    \A index \in 1..Len(wkMetadata.days[j].images) :
                       LET images == weekPlan.days[kept[j]].images
                           image  == images[CaptionedPositions(images)[index]]
                       IN  [filename |-> wkMetadata.days[j].images[index].filename,
                            image    |-> image.highResUrl] \in exportDir.files
              /\ wkMetadata.totalImages = ListedFilenames(wkMetadata.days, 1)

\* Some image of the day has no selected caption.
LacksCaption ==
    \E k \in 1..Len(plannerDay.images) : plannerDay.images[k].selectedCaption = JsNull

NoDuplicates(list) ==
    \A j, k \in 1..Len(list) : list[j] = list[k] => j = k

Holds(list, image) == \E k \in 1..Len(list) : list[k] = image

\* C30: the selection holds at most maxImages (6) images, no two with the
\* same cosmosId; toggling a selected image removes it, toggling an
\* unselected image when the list is full leaves the list as it was (and
\* appends it otherwise); handleGenerateCaptions called with fewer than 6
\* images sets the error and sends no request.
C30_SelectionBound ==
    /\ Len(selectedCosmosImages) <= 6
    /\ NoDuplicates(selectedCosmosImages)
    /\ lastCall.handler = "toggleSelection"
          => IF Holds(lastCall.before, lastCall.image)
             THEN /\ ~Holds(selectedCosmosImages, lastCall.image)
                  /\ Len(selectedCosmosImages) = Len(lastCall.before) - 1
                  /\ \A image \in Catalogue \ {lastCall.image} :
                        Holds(selectedCosmosImages, image) <=> Holds(lastCall.before, image)
             ELSE IF Len(lastCall.before) = 6
                  THEN selectedCosmosImages = lastCall.before
                  ELSE selectedCosmosImages = Append(lastCall.before, lastCall.image)
    /\ (lastCall.handler = "handleGenerateCaptions" /\ Len(lastCall.before) < 6)
          => /\ plannerError = "Please select at least 6 images"
             /\ ~isGenerating
             /\ generateRequest = <<>>
             /\ plannerDay = PendingDay
    /\ isGenerating => Len(generateRequest) >= 6

\* A seventh image toggled on a full selection, which stayed as it was.
C30_Witness ==
    /\ lastCall.handler = "toggleSelection"
    /\ Len(lastCall.before) = 6
    /\ ~Holds(lastCall.before, lastCall.image)
    /\ selectedCosmosImages = lastCall.before

\* A call of handleGenerateCaptions refused with five images selected.
C30_WitnessRefused ==
    /\ lastCall.handler = "handleGenerateCaptions"
    /\ Len(lastCall.before) = 5
    /\ plannerError = "Please select at least 6 images"

=============================================================================
